---- MODULE Spec2Model ----
(***************************************************************************)
(* A model of the pixiu resource getter (package resourcesstore): the      *)
(* discovery pass that builds the kind index (GetGVRs), the resolution of  *)
(* a user-supplied kind (ParseKind), the informers made for the discovered *)
(* resources (NewInformersForResource, ListResources), and of the cluster  *)
(* registry and watch cache the design document describes around them.     *)
(*                                                                         *)
(* Strings that the code transforms (kinds, user input) are sequences of   *)
(* one-character strings, so that strings.ToLower and inflection.Singular  *)
(* are computed; strings that are only compared (group, version, resource  *)
(* name, object name) are TLA+ strings.                                    *)
(***************************************************************************)
EXTENDS Integers, Sequences, FiniteSets, TLC

VARIABLES
    gvrs,          \* rg.gvrs: the discovered descriptors, in discovery order
    gvktogvrSet,   \* rg.gvktogvrSet: lower-cased kind -> descriptor
    informers,     \* rg.informers: descriptor -> informer
    pass,          \* outcome of the latest discovery pass
    call,          \* outcome of the latest ParseKind / ListResources call
    pcGet,         \* position of a GetGVRs call that runs concurrently
    getLocal,      \* its locals: resources, gvktogvrSet
    pcParse,       \* position of a ParseKind call that runs concurrently
    parseLocal,    \* its locals and the indexes it has read
    published,     \* the <<gvrs, gvktogvrSet>> the latest completed pass left
    registry,      \* Cluster Registry: the live connections
    removed,       \* the connections deregistered so far, in state Removed
    nextSerial,    \* the number the next connection is created with
    caches,        \* the Watch Caches: <<owning connection, kind>> -> cache
    coreCall,      \* outcome of the latest registry operation or query
    srv,           \* the remote cluster: kind -> object name -> version token
    rv,            \* the remote cluster's latest version token
    stream,        \* the change events the remote cluster has emitted
    lastEv,        \* the latest change event a Watch Cache received
    high,          \* cache -> object name -> the greatest token it ever stored
    retry,         \* cache -> its consecutive stream failures and remaining backoff
    ordApplied,    \* the events applied to the single entry ordEntries
    ordEntries,    \* a cache that starts empty and receives events in any order
    ordCount,      \* how many events it has received
    ordLast,       \* the event it received last
    cell,          \* a cached object, written field by field: token, payload
    rwlock,        \* the reader/writer lock of its cache
    wtask,         \* the cache's task applying an event: position, event token
    rtask,         \* the query callers reading the object: position, copy, result
    clientSets,    \* the clouds a client set is held for
    kubeRemote,    \* cloud -> the service accounts and role bindings in its cluster
    kubeStore,     \* the stored kubeconfig records, by id
    kubeCall,      \* outcome of the latest kubeConfigs operation
    proc,          \* the process: running or exited
    getters,       \* cluster -> the getter constructed for it
    ctor,          \* outcome of the latest constructor call
    refresh,       \* cluster -> the state of its scheduled refresh task
    rows,          \* the tenants and users tables: id -> resource_version, writer
    writers,       \* the callers of Update: position, arguments, answer
    configs,       \* the plan configs stored: id -> plan id
    cfgTask,       \* the callers of CreateConfig: position, arguments, answer
    bindings,      \* the user_role table: the committed <<user, role>> rows
    roleCall,      \* outcome of the latest SetUserRoles call
    daoCall        \* outcome of the latest NewDaoFactory call

rgVars == <<gvrs, gvktogvrSet, informers>>
discVars == <<gvrs, gvktogvrSet, informers, pass, call>>
raceVars == <<pcGet, getLocal, pcParse, parseLocal, published>>
coreVars == <<registry, removed, nextSerial, caches, coreCall>>
envVars == <<srv, rv, stream, lastEv, high, retry>>
ordVars == <<ordApplied, ordEntries, ordCount, ordLast>>
snapVars == <<cell, rwlock, wtask, rtask>>
kubeVars == <<clientSets, kubeRemote, kubeStore, kubeCall>>
procVars == <<proc, getters, ctor>>
refreshVars == <<refresh>>
dbVars == <<rows, writers, configs, cfgTask, bindings, roleCall, daoCall>>
extVars == <<snapVars, kubeVars, procVars, refreshVars, dbVars>>
\* what the getter's operations leave alone
notGetter == <<coreVars, envVars, ordVars, extVars>>
vars == <<discVars, raceVars, coreVars, envVars, ordVars, extVars>>

(***************************************************************************)
(* Bounds.                                                                 *)
(***************************************************************************)
\* the largest number of resource lists one discovery answer carries
MaxLists == 2
\* the same, where discovery and resolution interleave statement by statement
MaxRaceLists == 1
\* the largest number of connections the registry creates
MaxConns == 2
\* the largest version token the remote cluster reaches
MaxToken == 3
\* the largest number of events applied to the entry that starts empty
MaxEvents == 4

(***************************************************************************)
(* Strings.                                                                *)
(***************************************************************************)
Lowers == <<"a","b","c","d","e","f","g","h","i","j","k","l","m",
            "n","o","p","q","r","s","t","u","v","w","x","y","z">>
Uppers == <<"A","B","C","D","E","F","G","H","I","J","K","L","M",
            "N","O","P","Q","R","S","T","U","V","W","X","Y","Z">>

ToLowerChar(c) ==
    IF \E i \in 1..26 : Uppers[i] = c
    THEN Lowers[CHOOSE i \in 1..26 : Uppers[i] = c]
    ELSE c

ToUpperChar(c) ==
    IF \E i \in 1..26 : Lowers[i] = c
    THEN Uppers[CHOOSE i \in 1..26 : Lowers[i] = c]
    ELSE c

\* strings.ToLower
ToLower(s) == [i \in 1..Len(s) |-> ToLowerChar(s[i])]

\* strings.ToUpper
ToUpper(s) == [i \in 1..Len(s) |-> ToUpperChar(s[i])]

HasSuffix(s, suf) ==
    /\ Len(suf) <= Len(s)
    /\ SubSeq(s, Len(s) - Len(suf) + 1, Len(s)) = suf

(***************************************************************************)
(* inflection.Singular.  The library tries its compiled rules in order and *)
(* applies the first whose pattern matches; the regular rules are compiled *)
(* in the reverse of their listing, each in three forms: the pattern and   *)
(* the replacement upper-cased, the pattern as written, and the pattern    *)
(* matched case-insensitively.  A rule here is a suffix pattern, the       *)
(* number of leading characters of the match the replacement keeps (its    *)
(* capture group), in the order the library tries them.  The rules kept    *)
(* are (x|ch|ss|sh)es$, (ss)$ and s$; every other rule of the library      *)
(* (uncountable and irregular words, oes, ies, ves, ices, news, ...) needs *)
(* a letter sequence that no word of Inputs ends with.                     *)
(***************************************************************************)
SingularRules ==
    << [find |-> <<"x","e","s">>,     keep |-> 1],
       [find |-> <<"c","h","e","s">>, keep |-> 2],
       [find |-> <<"s","s","e","s">>, keep |-> 2],
       [find |-> <<"s","h","e","s">>, keep |-> 2],
       [find |-> <<"s","s">>,         keep |-> 2],
       [find |-> <<"s">>,             keep |-> 0] >>

\* the rule's pattern matches s in one of the three compiled forms
RuleMatches(rule, s) ==
    \/ HasSuffix(s, ToUpper(rule.find))
    \/ HasSuffix(s, rule.find)
    \/ HasSuffix(ToLower(s), rule.find)

\* the match replaced by its capture group (the characters of s itself)
RuleApply(rule, s) ==
    SubSeq(s, 1, Len(s) - Len(rule.find) + rule.keep)

Singular(s) ==
    IF \E i \in 1..Len(SingularRules) : RuleMatches(SingularRules[i], s)
    THEN RuleApply(SingularRules[CHOOSE i \in 1..Len(SingularRules) :
                        /\ RuleMatches(SingularRules[i], s)
                        /\ \A j \in 1..(i-1) : ~RuleMatches(SingularRules[j], s)], s)
    ELSE s

(***************************************************************************)
(* The kinds and the spellings a caller may pass.                          *)
(***************************************************************************)
Pod     == <<"P","o","d">>
Event   == <<"E","v","e","n","t">>
CronTab == <<"C","r","o","n","T","a","b">>

Kinds == {Pod, Event, CronTab}

\* the English plural of a kind name: -es after a sibilant, -s otherwise
Plural(k) ==
    IF HasSuffix(ToLower(k), <<"s","s">>) THEN k \o <<"e","s">> ELSE k \o <<"s">>

\* "pod", "Pod", "pods", "Pods"
Spellings(k) == {ToLower(k), k, ToLower(Plural(k)), Plural(k)}

Inputs == UNION {Spellings(k) : k \in Kinds}

(***************************************************************************)
(* The remote cluster: what the discovery client answers and the objects   *)
(* it holds.                                                               *)
(***************************************************************************)
APIResource(name, kind) == [Name |-> name, Kind |-> kind]

\* An APIResourceList; GroupVersion is the string split at its "/".
Catalogue ==
    << [GroupVersion |-> <<"v1">>,
        APIResources |-> <<APIResource("pods", Pod), APIResource("events", Event)>>],
       [GroupVersion |-> <<"events.k8s.io", "v1">>,
        APIResources |-> <<APIResource("events", Event)>>],
       [GroupVersion |-> <<"stable.example.com", "v1">>,
        APIResources |-> <<APIResource("crontabs", CronTab)>>],
       [GroupVersion |-> <<"metrics.k8s.io", "v1beta1">>,
        APIResources |-> << >>],
       [GroupVersion |-> <<"a", "b", "c">>,
        APIResources |-> <<APIResource("pods", Pod)>>] >>

\* the lists of the catalogue picked by sel, in the catalogue's order
RECURSIVE ListsOf(_, _)
ListsOf(sel, i) ==
    IF i > Len(Catalogue) THEN << >>
    ELSE IF i \in sel THEN <<Catalogue[i]>> \o ListsOf(sel, i + 1)
         ELSE ListsOf(sel, i + 1)

(* What dcClient.ServerPreferredResources can answer: the lists of the     *)
(* groups whose discovery succeeded, with an error when the discovery of   *)
(* some group (or of the group list itself: then no lists) failed.         *)
Responses ==
    { [lists |-> ListsOf(sel, 1), err |-> e] :
        sel \in {x \in SUBSET (1..Len(Catalogue)) : Cardinality(x) <= MaxLists},
        e \in BOOLEAN }

ObjNames == {"a", "b"}
ResourceNames == {"pods", "events", "crontabs"}

\* the objects the remote cluster holds, per resource: two pods
Remote == [r \in ResourceNames |-> IF r = "pods" THEN ObjNames ELSE {}]

(***************************************************************************)
(* schema.GroupVersionResource and schema.ParseGroupVersion.               *)
(***************************************************************************)
GVR(g, v, r) == [Group |-> g, Version |-> v, Resource |-> r]

ZeroGVR == GVR("", "", "")

ParseGroupVersion(gv) ==
    CASE Len(gv) = 0 -> [ok |-> TRUE,  Group |-> "",    Version |-> ""]
      [] Len(gv) = 1 -> [ok |-> TRUE,  Group |-> "",    Version |-> gv[1]]
      [] Len(gv) = 2 -> [ok |-> TRUE,  Group |-> gv[1], Version |-> gv[2]]
      [] OTHER       -> [ok |-> FALSE, Group |-> "",    Version |-> ""]

Range(f) == {f[x] : x \in DOMAIN f}

\* m[k] = v of a Go map
MapPut(m, k, v) == [x \in DOMAIN m \cup {k} |-> IF x = k THEN v ELSE m[x]]

EmptyMap == << >>

(***************************************************************************)
(* resourceGetter.GetGVRs.                                                 *)
(***************************************************************************)
\* the key a resource is filed under
KindKey(resource) == ToLower(resource.Kind)

\* the inner loop: every resource of one list is appended and filed
RECURSIVE AddResources(_, _, _, _)
AddResources(acc, gv, rs, i) ==
    IF i > Len(rs) THEN acc
    ELSE AddResources(
            [resources   |-> Append(acc.resources, GVR(gv.Group, gv.Version, rs[i].Name)),
             gvktogvrSet |-> MapPut(acc.gvktogvrSet, KindKey(rs[i]),
                                    GVR(gv.Group, gv.Version, rs[i].Name))],
            gv, rs, i + 1)

\* the outer loop: empty lists and unparsable group versions are skipped
RECURSIVE AddLists(_, _, _)
AddLists(acc, lists, i) ==
    IF i > Len(lists) THEN acc
    ELSE IF Len(lists[i].APIResources) = 0 THEN AddLists(acc, lists, i + 1)
    ELSE IF ~ParseGroupVersion(lists[i].GroupVersion).ok THEN AddLists(acc, lists, i + 1)
    ELSE AddLists(AddResources(acc, ParseGroupVersion(lists[i].GroupVersion),
                               lists[i].APIResources, 1),
                  lists, i + 1)

\* the locals resources and gvktogvrSet when the loops end
BuildIndex(lists) ==
    AddLists([resources |-> << >>, gvktogvrSet |-> EmptyMap], lists, 1)

(* The getter's gvrs and gvktogvrSet after GetGVRs met the answer resp,    *)
(* and the error it returns.                                               *)
\* GetGVRs that resets what it had discovered when the call fails
GetGVRs_ClearOnError(old, resp) ==
    IF resp.err
    THEN [gvrs |-> << >>, gvktogvrSet |-> EmptyMap, err |-> TRUE]
    ELSE LET built == BuildIndex(resp.lists)
         IN  [gvrs        |-> built.resources,
              gvktogvrSet |-> built.gvktogvrSet,
              err         |-> FALSE]

GetGVRs(old, resp) ==
    IF resp.err
    THEN [gvrs |-> old.gvrs, gvktogvrSet |-> old.gvktogvrSet, err |-> TRUE]
    ELSE LET built == BuildIndex(resp.lists)
         IN  [gvrs        |-> built.resources,
              gvktogvrSet |-> built.gvktogvrSet,
              err         |-> FALSE]

(***************************************************************************)
(* resourceGetter.ParseKind.                                               *)
(***************************************************************************)
\* ParseKind without its second lookup
ParseKind_NoRetry(set, kind) ==
    IF ToLower(kind) \in DOMAIN set
    THEN [gvr |-> set[ToLower(kind)], err |-> FALSE]
    ELSE [gvr |-> ZeroGVR, err |-> TRUE]

ParseKind(set, kind) ==
    IF ToLower(kind) \in DOMAIN set
    THEN [gvr |-> set[ToLower(kind)], err |-> FALSE]
    ELSE IF Singular(kind) \in DOMAIN set
         THEN [gvr |-> set[Singular(kind)], err |-> FALSE]
         ELSE [gvr |-> ZeroGVR, err |-> TRUE]

(***************************************************************************)
(* The informers.                                                          *)
(***************************************************************************)
(* sharedInformerFactory.ForResource knows the resources of the typed      *)
(* clientset only; for any other it returns an error.                      *)
ForResourceOK(gvr) ==
    gvr \in { GVR("", "v1", "pods"), GVR("", "v1", "events"),
              GVR("events.k8s.io", "v1", "events") }

(* The informer ForResource hands out.  The factory runs an informer, and  *)
(* so lists and watches the cluster into its store, only from its Start,   *)
(* which the getter never calls: the store is as the factory made it.      *)
NewInformer == [started |-> FALSE, store |-> {}]

(* NewInformersForResource that returns the ForResource error instead of   *)
(* going on to the next descriptor: rg.informers is then never assigned    *)
NewInformersForResource_ReturnOnError(list) ==
    IF \A i \in 1..Len(list) : ForResourceOK(list[i])
    THEN [g \in Range(list) |-> NewInformer]
    ELSE << >>

\* resourceGetter.NewInformersForResource: the new value of rg.informers
NewInformersForResource(list) ==
    [g \in {x \in Range(list) : ForResourceOK(x)} |-> NewInformer]

\* ListResources that lists the cluster instead of the informer's store
ListResources_FromCluster(informer) ==
    [objs |-> informer.store, err |-> FALSE, net |-> {"list"}]

(* resourceGetter.ListResources: lister.List(labels.Everything()) reads    *)
(* the informer's local store; net is the calls made to the cluster        *)
ListResources(informer) == [objs |-> informer.store, err |-> FALSE, net |-> {}]

(***************************************************************************)
(* NewResourceGetter: the getter the constructor returns when discovery    *)
(* answers resp.  The error of GetGVRs is dropped.                         *)
(***************************************************************************)
ZeroGetter == [gvrs |-> << >>, gvktogvrSet |-> EmptyMap]

NewResourceGetter(resp) ==
    LET got == GetGVRs(ZeroGetter, resp)
    IN  [gvrs        |-> got.gvrs,
         gvktogvrSet |-> got.gvktogvrSet,
         informers   |-> NewInformersForResource(got.gvrs)]

NoCall == [op |-> "none", kind |-> << >>, gvr |-> ZeroGVR, err |-> FALSE,
           objs |-> {}, before |-> << >>, net |-> {}]

RaceIdle ==
    /\ pcGet = "idle"
    /\ getLocal = << >>
    /\ pcParse = "idle"
    /\ parseLocal = << >>
    /\ published = << >>

\* the registry, the caches and the remote cluster before anything is registered
CoreIdle ==
    /\ registry = {}
    /\ removed = {}
    /\ nextSerial = 1
    /\ caches = << >>
    /\ coreCall = [op |-> "none"]
    /\ srv = << >>
    /\ rv = 0
    /\ stream = {}
    /\ lastEv = [op |-> "none"]
    /\ high = << >>
    /\ retry = << >>

OrdIdle ==
    /\ ordApplied = {}
    /\ ordEntries = << >>
    /\ ordCount = 0
    /\ ordLast = << >>

\* the query callers of the object cell
Readers == {"r1", "r2"}

NoObject == [valid |-> FALSE, token |-> 0, payload |-> 0]

IdleReader == [pc |-> "idle", token |-> 0, out |-> NoObject]

IdleWriter == [pc |-> "idle", ev |-> 0]

FreeLock == [writer |-> FALSE, readers |-> 0]

SnapIdle ==
    /\ cell = [token |-> 0, payload |-> 0]
    /\ rwlock = FreeLock
    /\ wtask = IdleWriter
    /\ rtask = [r \in Readers |-> IdleReader]

KubeIdle ==
    /\ clientSets = {}
    /\ kubeRemote = << >>
    /\ kubeStore = << >>
    /\ kubeCall = [op |-> "none"]

ProcIdle ==
    /\ proc = "running"
    /\ getters = << >>
    /\ ctor = [op |-> "none"]

RefreshIdle == refresh = << >>

\* the tables, their callers and the factory before the database is used
RowsIdle == rows = << >> /\ writers = << >>
PlanIdle == configs = << >> /\ cfgTask = << >>
RolesIdle == bindings = {} /\ roleCall = [op |-> "none"] /\ daoCall = [op |-> "none"]
DbIdle == RowsIdle /\ PlanIdle /\ RolesIdle

ExtIdle == SnapIdle /\ KubeIdle /\ ProcIdle /\ RefreshIdle /\ DbIdle

\* a getter not yet constructed
GetterIdle ==
    /\ gvrs = << >>
    /\ gvktogvrSet = << >>
    /\ informers = << >>
    /\ pass = [op |-> "none", lists |-> << >>, err |-> FALSE]
    /\ call = NoCall
    /\ RaceIdle

Init ==
    /\ CoreIdle
    /\ OrdIdle
    /\ ExtIdle
    /\ \E resp \in Responses :
          LET rg == NewResourceGetter(resp)
          IN  /\ gvrs = rg.gvrs
              /\ gvktogvrSet = rg.gvktogvrSet
              /\ informers = rg.informers
              /\ pass = [op |-> "NewResourceGetter", lists |-> resp.lists, err |-> resp.err]
    /\ call = NoCall
    /\ RaceIdle

\* a later discovery pass
DoGetGVRs ==
    \E resp \in Responses :
        LET got == GetGVRs([gvrs |-> gvrs, gvktogvrSet |-> gvktogvrSet], resp)
        IN  /\ gvrs' = got.gvrs
            /\ gvktogvrSet' = got.gvktogvrSet
            /\ pass' = [op |-> "GetGVRs", lists |-> resp.lists, err |-> got.err]
            /\ call' = NoCall
            /\ UNCHANGED informers
            /\ UNCHANGED <<raceVars, notGetter>>

DoNewInformersForResource ==
    /\ informers' = NewInformersForResource(gvrs)
    /\ call' = [NoCall EXCEPT !.op = "NewInformersForResource", !.before = rgVars]
    /\ UNCHANGED <<gvrs, gvktogvrSet, pass>>
    /\ UNCHANGED <<raceVars, notGetter>>

DoParseKind ==
    \E kind \in Inputs :
        LET res == ParseKind(gvktogvrSet, kind)
        IN  /\ call' = [op |-> "ParseKind", kind |-> kind, gvr |-> res.gvr,
                        err |-> res.err, objs |-> {}, before |-> rgVars, net |-> {}]
            /\ UNCHANGED <<gvrs, gvktogvrSet, informers, pass>>
        /\ UNCHANGED <<raceVars, notGetter>>

DoListResources ==
    \E g \in DOMAIN informers :
        LET res == ListResources(informers[g])
        IN  /\ call' = [op |-> "ListResources", kind |-> << >>, gvr |-> g,
                        err |-> res.err, objs |-> res.objs, before |-> rgVars,
                        net |-> res.net]
            /\ UNCHANGED <<gvrs, gvktogvrSet, informers, pass>>
        /\ UNCHANGED <<raceVars, notGetter>>

Next ==
    \/ DoGetGVRs
    \/ DoNewInformersForResource
    \/ DoParseKind
    \/ DoListResources

Spec == Init /\ [][Next]_vars

(***************************************************************************)
(* GetGVRs and ParseKind statement by statement.  The getter has no lock:  *)
(* GetGVRs fills its locals, then assigns rg.gvrs, then rg.gvktogvrSet;    *)
(* ParseKind reads rg.gvktogvrSet for the lower-cased kind and, on a miss, *)
(* reads it again for the singular.  A call of either may run between any  *)
(* two of these statements.                                                *)
(***************************************************************************)
RaceResponses == {r \in Responses : Len(r.lists) <= MaxRaceLists}

NoPass == [op |-> "none", lists |-> << >>, err |-> FALSE]

InitRace ==
    /\ CoreIdle
    /\ OrdIdle
    /\ ExtIdle
    /\ \E resp \in RaceResponses :
          LET rg == NewResourceGetter(resp)
          IN  /\ gvrs = rg.gvrs
              /\ gvktogvrSet = rg.gvktogvrSet
              /\ informers = rg.informers
              /\ published = <<rg.gvrs, rg.gvktogvrSet>>
    /\ pass = NoPass
    /\ call = NoCall
    /\ pcGet = "idle"
    /\ getLocal = << >>
    /\ pcParse = "idle"
    /\ parseLocal = << >>

\* GetGVRs up to the end of its loops; on an error it has returned
GetBuild ==
    /\ pcGet = "idle"
    /\ \E resp \in RaceResponses :
          IF resp.err
          THEN UNCHANGED <<pcGet, getLocal>>
          ELSE /\ pcGet' = "built"
               /\ getLocal' = BuildIndex(resp.lists)
    /\ UNCHANGED <<gvrs, gvktogvrSet, informers, pass, call, pcParse, parseLocal, published>>
    /\ UNCHANGED notGetter

\* rg.gvrs = resources
GetAssignGvrs ==
    /\ pcGet = "built"
    /\ gvrs' = getLocal.resources
    /\ pcGet' = "assigned"
    /\ UNCHANGED <<gvktogvrSet, informers, pass, call, getLocal, pcParse, parseLocal, published>>
    /\ UNCHANGED notGetter

\* rg.gvktogvrSet = gvktogvrSet; return nil
GetAssignSet ==
    /\ pcGet = "assigned"
    /\ gvktogvrSet' = getLocal.gvktogvrSet
    /\ published' = <<getLocal.resources, getLocal.gvktogvrSet>>
    /\ pcGet' = "idle"
    /\ getLocal' = << >>
    /\ UNCHANGED <<gvrs, informers, pass, call, pcParse, parseLocal>>
    /\ UNCHANGED notGetter

\* gvr, ok := rg.gvktogvrSet[strings.ToLower(kind)]
ParseLookup ==
    /\ pcParse = "idle"
    /\ \E kind \in Inputs :
          IF ToLower(kind) \in DOMAIN gvktogvrSet
          THEN /\ call' = [op |-> "ParseKind", kind |-> kind,
                           gvr |-> gvktogvrSet[ToLower(kind)], err |-> FALSE,
                           objs |-> {}, before |-> rgVars]
               /\ UNCHANGED <<pcParse, parseLocal>>
          ELSE /\ pcParse' = "retry"
               /\ parseLocal' = [kind |-> kind]
               /\ call' = NoCall
    /\ UNCHANGED <<gvrs, gvktogvrSet, informers, pass, pcGet, getLocal, published>>
    /\ UNCHANGED notGetter

\* gvr, ok = rg.gvktogvrSet[inflection.Singular(kind)]
ParseRetry ==
    /\ pcParse = "retry"
    /\ call' = [op |-> "ParseKind", kind |-> parseLocal.kind,
                gvr |-> IF Singular(parseLocal.kind) \in DOMAIN gvktogvrSet
                        THEN gvktogvrSet[Singular(parseLocal.kind)] ELSE ZeroGVR,
                err |-> Singular(parseLocal.kind) \notin DOMAIN gvktogvrSet,
                objs |-> {}, before |-> rgVars]
    /\ pcParse' = "idle"
    /\ parseLocal' = << >>
    /\ UNCHANGED <<gvrs, gvktogvrSet, informers, pass, pcGet, getLocal, published>>
    /\ UNCHANGED notGetter

NextRace ==
    \/ GetBuild
    \/ GetAssignGvrs
    \/ GetAssignSet
    \/ ParseLookup
    \/ ParseRetry

SpecRace == InitRace /\ [][NextRace]_vars

(***************************************************************************)
(* Properties of discovery and resolution.                                 *)
(***************************************************************************)
\* the resources of the lists GetGVRs does not skip, each with its descriptor
Listed(lists) ==
    { [Kind |-> lists[i].APIResources[j].Kind,
       gvr  |-> GVR(ParseGroupVersion(lists[i].GroupVersion).Group,
                    ParseGroupVersion(lists[i].GroupVersion).Version,
                    lists[i].APIResources[j].Name)] :
        <<i, j>> \in { x \in (1..Len(lists)) \X (1..2) :
                        /\ x[2] <= Len(lists[x[1]].APIResources)
                        /\ ParseGroupVersion(lists[x[1]].GroupVersion).ok } }

(* C1: for every kind the index holds, its lower-case, capitalised,        *)
(* singular and plural spellings ("pod", "Pod", "pods", "Pods") all        *)
(* resolve, without error, to the descriptor the kind is filed under.      *)
C1_SpellingsResolveAlike ==
    \A k \in Kinds :
        (/\ ToLower(k) \in DOMAIN gvktogvrSet
         /\ call.op = "ParseKind"
         /\ call.kind \in Spellings(k))
        => (~call.err /\ call.gvr = gvktogvrSet[ToLower(k)])

(* C2: after a discovery pass in which the discovery of some group failed  *)
(* and that of other groups succeeded, every kind of a successfully        *)
(* discovered group resolves.                                              *)
C2_PartialFailureStillResolves ==
    (/\ pass.err
     /\ call.op = "ParseKind"
     /\ \E r \in Listed(pass.lists) : call.kind = ToLower(r.Kind))
    => ~call.err

(* C3: the list and the index are swapped as one: a resolution that runs   *)
(* while a discovery pass does finds, between its lookups, the list and    *)
(* index the previous pass left or those of the new pass, never the list   *)
(* of one with the index of the other.                                     *)
C3_AtomicSwap ==
    pcParse = "retry" =>
        \/ <<gvrs, gvktogvrSet>> = published
        \/ /\ pcGet # "idle"
           /\ <<gvrs, gvktogvrSet>> = <<getLocal.resources, getLocal.gvktogvrSet>>

(* C4: ParseKind returns the unknown-kind error exactly when neither the   *)
(* lower-cased input nor the singular of the input is a key of the index   *)
(* (so always while the index is empty), it returns the error within the   *)
(* call, and the call leaves the list, the index and the informers as      *)
(* they were.                                                              *)
C4_UnknownKindExactly ==
    call.op = "ParseKind" =>
        /\ call.err <=> /\ ToLower(call.kind) \notin DOMAIN gvktogvrSet
                        /\ Singular(call.kind) \notin DOMAIN gvktogvrSet
        /\ call.err => call.gvr = ZeroGVR
        /\ (gvktogvrSet = EmptyMap) => call.err
        /\ call.before = rgVars

\* an unknown-kind error from a filled index
C4_Witness ==
    /\ call.op = "ParseKind"
    /\ call.err
    /\ gvktogvrSet # EmptyMap

(* C5: after a discovery pass the index is complete and self-consistent:   *)
(* every key is the lower-cased kind of the descriptor it maps to, and     *)
(* every discovered descriptor is the one its kind resolves to.            *)
C5_IndexCompleteConsistent ==
    ~pass.err =>
        /\ \A key \in DOMAIN gvktogvrSet :
              \E r \in Listed(pass.lists) :
                  ToLower(r.Kind) = key /\ r.gvr = gvktogvrSet[key]
        /\ \A r \in Listed(pass.lists) :
              /\ ToLower(r.Kind) \in DOMAIN gvktogvrSet
              /\ gvktogvrSet[ToLower(r.Kind)] = r.gvr

(* C8: once the getter is constructed, a listing of a discovered kind      *)
(* returns exactly the objects the cluster holds of that kind.             *)
C8_ListReturnsSeed ==
    call.op = "ListResources" => call.objs = Remote[call.gvr.Resource]

(***************************************************************************)
(* The Cluster Registry, the Cache Manager and the Watch Cache, as the     *)
(* design document states them (sections 3, 4.2 to 4.4).                   *)
(***************************************************************************)
ClusterIds == {"c1", "c2"}
TypeKinds == {"pod", "event"}
Names == {"a", "b"}

Conn(id, serial, state) == [id |-> id, serial |-> serial, state |-> state]

IsRegistered(reg, id) == \E c \in reg : c.id = id

ConnOf(reg, id) == CHOOSE c \in reg : c.id = id

\* a Watch Cache at its cold start, and after its teardown
NewCache == [state |-> "Seeding", entries |-> << >>, baseline |-> 0, subscribed |-> FALSE]

StoppedCache == [state |-> "Stopped", entries |-> << >>, baseline |-> 0, subscribed |-> FALSE]

IsLive(cs, key) == key \in DOMAIN cs /\ cs[key].state # "Stopped"

\* the caches the connection numbered serial owns that are not stopped
LiveKinds(cs, serial) == {k \in TypeKinds : IsLive(cs, <<serial, k>>)}

\* Cache Manager, TeardownAll: every cache the connection owns is stopped
TeardownAll(cs, serial) ==
    [key \in DOMAIN cs |-> IF key[1] = serial THEN StoppedCache ELSE cs[key]]

(* Cache Manager, Reconcile: a cache is started for each kind not active,  *)
(* the cache of each active kind that is absent is stopped, the cache of   *)
(* each kind that stays is left alone.                                     *)
Reconcile(cs, serial, kinds) ==
    [key \in DOMAIN cs \cup ({serial} \X kinds) |->
        IF key[1] # serial THEN cs[key]
        ELSE IF key[2] \notin kinds THEN StoppedCache
        ELSE IF IsLive(cs, key) THEN cs[key]
        ELSE NewCache]

\* RegisterCluster without the test for a connection of the same id
RegisterCluster_NoExistsCheck(reg, id, serial) ==
    [registry |-> reg \cup {Conn(id, serial, "Registered")}, result |-> "Accepted"]

\* Cluster Registry, RegisterCluster
RegisterCluster(reg, id, serial) ==
    IF IsRegistered(reg, id)
    THEN [registry |-> reg, result |-> "AlreadyExists"]
    ELSE [registry |-> reg \cup {Conn(id, serial, "Registered")}, result |-> "Accepted"]

\* DeregisterCluster that forgets the connection and leaves its caches running
DeregisterCluster_NoTeardown(reg, cs, id) ==
    IF ~IsRegistered(reg, id)
    THEN [registry |-> reg, caches |-> cs, gone |-> {}, result |-> "ClusterUnknown"]
    ELSE [registry |-> reg \ {ConnOf(reg, id)},
          caches   |-> cs,
          gone     |-> {Conn(id, ConnOf(reg, id).serial, "Removed")},
          result   |-> "Removed"]

(* Cluster Registry, DeregisterCluster: the connection becomes Removed,    *)
(* its caches are torn down and it leaves the registry.                    *)
DeregisterCluster(reg, cs, id) ==
    IF ~IsRegistered(reg, id)
    THEN [registry |-> reg, caches |-> cs, gone |-> {}, result |-> "ClusterUnknown"]
    ELSE [registry |-> reg \ {ConnOf(reg, id)},
          caches   |-> TeardownAll(cs, ConnOf(reg, id).serial),
          gone     |-> {Conn(id, ConnOf(reg, id).serial, "Removed")},
          result   |-> "Removed"]

\* the objects a cache holds
Cached(cache) == DOMAIN cache.entries

(* Cluster Registry, Query without a name (List): the id is resolved to a  *)
(* live connection, the kind to a cache of that connection, and the        *)
(* objects are read from the cache.                                        *)
List(reg, cs, id, kind) ==
    IF ~IsRegistered(reg, id) THEN [result |-> "ClusterUnknown", objs |-> {}]
    ELSE IF ~IsLive(cs, <<ConnOf(reg, id).serial, kind>>)
         THEN [result |-> "UnknownKind", objs |-> {}]
         ELSE [result |-> "OK", objs |-> Cached(cs[<<ConnOf(reg, id).serial, kind>>])]

\* Cluster Registry, Query with a name (Get)
Get(reg, cs, id, kind, name) ==
    IF ~IsRegistered(reg, id) THEN [result |-> "ClusterUnknown", objs |-> {}]
    ELSE IF ~IsLive(cs, <<ConnOf(reg, id).serial, kind>>)
         THEN [result |-> "UnknownKind", objs |-> {}]
         ELSE IF name \notin Cached(cs[<<ConnOf(reg, id).serial, kind>>])
              THEN [result |-> "NotFound", objs |-> {}]
              ELSE [result |-> "OK", objs |-> {name}]

\* the connection c with its state changed
WithState(reg, c, state) == (reg \ {c}) \cup {Conn(c.id, c.serial, state)}

\* a health that reports Syncing again while a type is being seeded anew
Health_SyncingWhileSeeding(c, cs) ==
    IF c.state \in {"Registered", "Discovering"} THEN c.state
    ELSE IF \E k \in LiveKinds(cs, c.serial) : cs[<<c.serial, k>>].state = "Degraded"
         THEN "Degraded"
         ELSE IF \A k \in LiveKinds(cs, c.serial) : cs[<<c.serial, k>>].state = "Syncing"
              THEN "Ready"
              ELSE "Syncing"

(* The lifecycle state a connection takes from its caches once discovery   *)
(* is over: Degraded while a type is failing its watch, Ready once every   *)
(* type is synchronised.                                                   *)
Health(c, cs) ==
    IF c.state \in {"Registered", "Discovering"} THEN c.state
    ELSE IF \E k \in LiveKinds(cs, c.serial) : cs[<<c.serial, k>>].state = "Degraded"
         THEN "Degraded"
         ELSE IF \A k \in LiveKinds(cs, c.serial) : cs[<<c.serial, k>>].state = "Syncing"
              THEN "Ready"
              ELSE c.state

\* the registry with the connection that owns the cache key brought to its health
WithHealth(reg, cs, key) ==
    IF \E c \in reg : c.serial = key[1]
    THEN LET c == CHOOSE x \in reg : x.serial = key[1]
         IN  WithState(reg, c, Health(c, cs))
    ELSE reg

(* The remote cluster.  An object's version token is the cluster's version *)
(* at its last change; 0 stands for an object that does not exist.         *)
EmptyCluster == [k \in TypeKinds |-> [n \in Names |-> 0]]

\* what a full listing of a kind returns: the objects that exist
Listing(cluster, kind) ==
    [n \in {x \in Names : cluster[kind][x] # 0} |->
        [token |-> cluster[kind][n], payload |-> cluster[kind][n]]]

\* a cluster with the pods a and b
SeededCluster ==
    [k \in TypeKinds |-> [n \in Names |->
        IF k = "pod" THEN (IF n = "a" THEN 1 ELSE 2) ELSE 0]]

WatchEvent(type, kind, name, token) ==
    [type |-> type, kind |-> kind, name |-> name, token |-> token]

\* the entry an Added or Modified event carries
EntryOf(ev) == [token |-> ev.token, payload |-> ev.token]

\* the entries without the one named name
Without(entries, name) == [n \in DOMAIN entries \ {name} |-> entries[n]]

\* ApplyEvent that applies every event, stale or not
ApplyEvent_NoStaleCheck(entries, ev) ==
    IF ev.type = "Deleted" THEN Without(entries, ev.name)
    ELSE MapPut(entries, ev.name, EntryOf(ev))

(* Watch Cache, Syncing: an event is applied only if its version token is  *)
(* strictly greater than the token of the cached entry.  Added and         *)
(* Modified store the entry, Deleted removes it, token and all.            *)
ApplyEvent(entries, ev) ==
    IF ev.name \in DOMAIN entries /\ ev.token <= entries[ev.name].token
    THEN entries
    ELSE IF ev.type = "Deleted" THEN Without(entries, ev.name)
         ELSE MapPut(entries, ev.name, EntryOf(ev))

NoEvent == [op |-> "none"]

\* the token the entries hold for name, 0 if they hold none
TokenOf(entries, name) == IF name \in DOMAIN entries THEN entries[name].token ELSE 0

\* the greatest tokens stored so far, given the caches as they are now
Raise(old, cs) ==
    [key \in DOMAIN cs |->
        [n \in Names |->
            LET was == IF key \in DOMAIN old THEN old[key][n] ELSE 0
                now == TokenOf(cs[key].entries, n)
            IN  IF now > was THEN now ELSE was]]

(* Watch Cache, Degraded: the backoff.  The delay starts at BackoffBase,    *)
(* doubles with every consecutive failure and never exceeds BackoffCap; a  *)
(* received event ends the run of consecutive failures.                    *)
BackoffBase == 1
BackoffCap == 3

Min(a, b) == IF a < b THEN a ELSE b

RECURSIVE Pow2(_)
Pow2(n) == IF n = 0 THEN 1 ELSE 2 * Pow2(n - 1)

\* the delay without the cap
BackoffDelay_NoCap(attempt) == BackoffBase * Pow2(attempt - 1)

\* the delay after the attempt-th consecutive failure
BackoffDelay(attempt) == Min(BackoffBase * Pow2(attempt - 1), BackoffCap)

NoRetry == [attempt |-> 0, wait |-> 0]

RetryOf(rt, key) == IF key \in DOMAIN rt THEN rt[key] ELSE NoRetry

\* one more failure; the count stops growing once the delay is at the cap
Failed(r) ==
    LET n == IF r.attempt > 0 /\ BackoffDelay(r.attempt) >= BackoffCap
             THEN r.attempt ELSE r.attempt + 1
    IN  [attempt |-> n, wait |-> BackoffDelay(n)]

\* a stopped cache releases what it held, its backoff included
Forget(rt, cs) ==
    [key \in {x \in DOMAIN rt : x \in DOMAIN cs /\ cs[x].state # "Stopped"} |-> rt[key]]

InitRegistry ==
    /\ registry = {}
    /\ removed = {}
    /\ nextSerial = 1
    /\ caches = << >>
    /\ coreCall = [op |-> "none"]
    /\ srv = SeededCluster
    /\ rv = 2
    /\ stream = {}
    /\ lastEv = NoEvent
    /\ high = Raise(<< >>, caches)
    /\ retry = << >>
    /\ OrdIdle
    /\ ExtIdle
    /\ gvrs = << >>
    /\ gvktogvrSet = EmptyMap
    /\ informers = << >>
    /\ pass = NoPass
    /\ call = NoCall
    /\ RaceIdle

notCore == <<discVars, raceVars, ordVars, extVars>>

DoRegisterCluster ==
    \E id \in ClusterIds :
        LET r == RegisterCluster(registry, id, nextSerial)
        IN  /\ (r.result = "Accepted") => nextSerial <= MaxConns
            /\ registry' = r.registry
            /\ nextSerial' = IF r.result = "Accepted" THEN nextSerial + 1 ELSE nextSerial
            /\ coreCall' = [op |-> "RegisterCluster", id |-> id, result |-> r.result,
                            before |-> <<registry, caches>>]
            /\ UNCHANGED <<removed, caches, envVars, notCore>>

DoDeregisterCluster ==
    \E id \in ClusterIds :
        LET r == DeregisterCluster(registry, caches, id)
        IN  /\ registry' = r.registry
            /\ caches' = r.caches
            /\ removed' = removed \cup r.gone
            /\ coreCall' = [op |-> "DeregisterCluster", id |-> id, result |-> r.result,
                            before |-> <<registry, caches>>]
            /\ lastEv' = NoEvent
            /\ high' = Raise(high, caches')
            /\ retry' = Forget(retry, caches')
            /\ UNCHANGED <<nextSerial, srv, rv, stream, notCore>>

\* the discovery pass that registration triggers starts
BeginDiscovery ==
    \E c \in registry :
        /\ c.state = "Registered"
        /\ registry' = WithState(registry, c, "Discovering")
        /\ coreCall' = [op |-> "none"]
        /\ UNCHANGED <<removed, nextSerial, caches, envVars, notCore>>

\* it ends: the Cache Manager reconciles with the kinds discovered
FinishDiscovery ==
    \E c \in registry : \E kinds \in SUBSET TypeKinds :
        /\ c.state = "Discovering"
        /\ registry' = WithState(registry, c, "Syncing")
        /\ caches' = Reconcile(caches, c.serial, kinds)
        /\ coreCall' = [op |-> "none"]
        /\ lastEv' = NoEvent
        /\ high' = Raise(high, caches')
        /\ UNCHANGED <<removed, nextSerial, srv, rv, stream, retry, notCore>>

(* Watch Cache, Seeding: a full listing fills the cache, its version token *)
(* is the baseline, and the subscription opens (Syncing).  The connection  *)
(* is Ready once every cache it owns is past its seed.                     *)
SeedCache ==
    \E c \in registry : \E k \in TypeKinds :
        /\ IsLive(caches, <<c.serial, k>>)
        /\ caches[<<c.serial, k>>].state = "Seeding"
        /\ caches' = [caches EXCEPT ![<<c.serial, k>>] =
                        [state |-> "Syncing", entries |-> Listing(srv, k),
                         baseline |-> rv, subscribed |-> TRUE]]
        /\ registry' = WithHealth(registry, caches', <<c.serial, k>>)
        /\ coreCall' = [op |-> "none"]
        /\ lastEv' = NoEvent
        /\ high' = Raise(high, caches')
        /\ UNCHANGED <<removed, nextSerial, srv, rv, stream, retry, notCore>>

DoList ==
    \E id \in ClusterIds : \E k \in TypeKinds :
        LET r == List(registry, caches, id, k)
        IN  /\ coreCall' = [op |-> "List", id |-> id, kind |-> k, result |-> r.result,
                            objs |-> r.objs, before |-> <<registry, caches>>]
            /\ UNCHANGED <<registry, removed, nextSerial, caches, envVars, notCore>>

DoGet ==
    \E id \in ClusterIds : \E k \in TypeKinds : \E n \in Names :
        LET r == Get(registry, caches, id, k, n)
        IN  /\ coreCall' = [op |-> "Get", id |-> id, kind |-> k, name |-> n,
                            result |-> r.result, objs |-> r.objs,
                            before |-> <<registry, caches>>]
            /\ UNCHANGED <<registry, removed, nextSerial, caches, envVars, notCore>>

NextRegistry ==
    \/ DoRegisterCluster
    \/ DoDeregisterCluster
    \/ BeginDiscovery
    \/ FinishDiscovery
    \/ SeedCache
    \/ DoList
    \/ DoGet

SpecRegistry == InitRegistry /\ [][NextRegistry]_vars

(***************************************************************************)
(* One Watch Cache against a remote cluster that changes.                  *)
(***************************************************************************)
InitCache ==
    /\ registry = {Conn("c1", 1, "Syncing")}
    /\ removed = {}
    /\ nextSerial = 2
    /\ caches = (<<1, "pod">> :> NewCache)
    /\ coreCall = [op |-> "none"]
    /\ srv = EmptyCluster
    /\ rv = 0
    /\ stream = {}
    /\ lastEv = NoEvent
    /\ high = Raise(<< >>, caches)
    /\ retry = << >>
    /\ OrdIdle
    /\ ExtIdle
    /\ gvrs = << >>
    /\ gvktogvrSet = EmptyMap
    /\ informers = << >>
    /\ pass = NoPass
    /\ call = NoCall
    /\ RaceIdle

\* the kinds some connection has a cache for
WatchedKinds == {key[2] : key \in DOMAIN caches}

(* The remote cluster creates, changes or deletes an object: the object    *)
(* takes the next version token and the change is emitted as an event.     *)
RemoteChange ==
    \E k \in WatchedKinds : \E n \in Names : \E type \in {"Added", "Modified", "Deleted"} :
        /\ rv < MaxToken
        /\ (type = "Added") <=> (srv[k][n] = 0)
        /\ rv' = rv + 1
        /\ srv' = [srv EXCEPT ![k][n] = IF type = "Deleted" THEN 0 ELSE rv + 1]
        /\ stream' = stream \cup {WatchEvent(type, k, n, rv + 1)}
        /\ UNCHANGED <<lastEv, high, retry, coreVars, notCore>>

(* Watch Cache, Syncing: the cache receives an event of its subscription,  *)
(* which starts from the baseline; events may arrive in any order and      *)
(* more than once.                                                         *)
ReceiveEvent ==
    \E key \in DOMAIN caches : \E ev \in stream :
        /\ caches[key].state = "Syncing"
        /\ ev.kind = key[2]
        /\ ev.token > caches[key].baseline
        /\ caches' = [caches EXCEPT ![key].entries = ApplyEvent(caches[key].entries, ev)]
        /\ lastEv' = [op |-> "event", key |-> key, ev |-> ev,
                      before |-> caches[key].entries]
        /\ coreCall' = [op |-> "none"]
        /\ high' = Raise(high, caches')
        /\ retry' = MapPut(retry, key, NoRetry)
        /\ UNCHANGED <<registry, removed, nextSerial, srv, rv, stream, notCore>>

(* Watch Cache, Syncing -> Degraded: the subscription breaks, or the       *)
(* server reports the baseline too old to resume from; the backoff starts. *)
BreakStream ==
    \E key \in DOMAIN caches :
        /\ caches[key].state = "Syncing"
        /\ caches' = [caches EXCEPT ![key].state = "Degraded", ![key].subscribed = FALSE]
        /\ retry' = MapPut(retry, key, Failed(RetryOf(retry, key)))
        /\ registry' = WithHealth(registry, caches', key)
        /\ lastEv' = NoEvent
        /\ coreCall' = [op |-> "none"]
        /\ high' = Raise(high, caches')
        /\ UNCHANGED <<removed, nextSerial, srv, rv, stream, notCore>>

\* Watch Cache, Degraded: a unit of the backoff delay passes
BackoffTick ==
    \E key \in DOMAIN caches :
        /\ caches[key].state = "Degraded"
        /\ RetryOf(retry, key).wait > 0
        /\ retry' = [retry EXCEPT ![key].wait = @ - 1]
        /\ UNCHANGED <<srv, rv, stream, lastEv, high, coreVars, notCore>>

\* Watch Cache, Degraded -> Seeding: after the backoff, a fresh full listing
Reseed ==
    \E key \in DOMAIN caches :
        /\ caches[key].state = "Degraded"
        /\ RetryOf(retry, key).wait = 0
        /\ caches' = [caches EXCEPT ![key].state = "Seeding"]
        /\ lastEv' = NoEvent
        /\ coreCall' = [op |-> "none"]
        /\ high' = Raise(high, caches')
        /\ UNCHANGED <<registry, removed, nextSerial, srv, rv, stream, retry, notCore>>

NextCache ==
    \/ RemoteChange
    \/ SeedCache
    \/ ReceiveEvent
    \/ BreakStream
    \/ BackoffTick
    \/ Reseed
    \/ DoList
    \/ DoDeregisterCluster

SpecCache == InitCache /\ [][NextCache]_vars

(***************************************************************************)
(* The registry with caches that fail and restart.                         *)
(***************************************************************************)
\* the answers of a discovery that reached every group: MaxLists lists, no error
FullResponses == {r \in Responses : ~r.err /\ Len(r.lists) = MaxLists}

(* c2 is Ready with its pods seeded and one more connection can be made:  *)
(* c1 registers, or c2 is removed and registers again; the earlier         *)
(* connections of c1 were removed before their discovery.  The getter is   *)
(* as NewResourceGetter built it.                                          *)
InitLifecycle ==
    /\ registry = {Conn("c2", MaxConns - 1, "Ready")}
    /\ removed = {Conn("c1", n, "Removed") : n \in 1..(MaxConns - 2)}
    /\ nextSerial = MaxConns
    /\ caches = (<<MaxConns - 1, "pod">> :>
                    [state |-> "Syncing", entries |-> Listing(SeededCluster, "pod"),
                     baseline |-> 2, subscribed |-> TRUE])
    /\ coreCall = [op |-> "none"]
    /\ srv = SeededCluster
    /\ rv = 2
    /\ stream = {}
    /\ lastEv = NoEvent
    /\ high = Raise(<< >>, caches)
    /\ retry = << >>
    /\ OrdIdle
    /\ ExtIdle
    /\ \E resp \in FullResponses :
          LET rg == NewResourceGetter(resp)
          IN  /\ gvrs = rg.gvrs
              /\ gvktogvrSet = rg.gvktogvrSet
              /\ informers = rg.informers
              /\ pass = [op |-> "NewResourceGetter", lists |-> resp.lists, err |-> resp.err]
    /\ call = NoCall
    /\ RaceIdle

NextLifecycle ==
    \/ DoRegisterCluster
    \/ DoDeregisterCluster
    \/ BeginDiscovery
    \/ FinishDiscovery
    \/ SeedCache
    \/ BreakStream
    \/ BackoffTick
    \/ Reseed

SpecLifecycle == InitLifecycle /\ [][NextLifecycle]_vars

(***************************************************************************)
(* One entry of a cache that starts empty and receives events of the       *)
(* version tokens 3, 5, 6 and 7 in any order, any of them more than once.  *)
(***************************************************************************)
OrdTokens == {3, 5, 6, 7}
OrdTypes == {"Added", "Modified", "Deleted"}

InitOrder ==
    /\ OrdIdle
    /\ ExtIdle
    /\ CoreIdle
    /\ gvrs = << >>
    /\ gvktogvrSet = EmptyMap
    /\ informers = << >>
    /\ pass = NoPass
    /\ call = NoCall
    /\ RaceIdle

\* the next event is applied; a version token stands for one event
OrdApply ==
    \E t \in OrdTokens : \E type \in OrdTypes :
        /\ ordCount < MaxEvents
        /\ \A e \in ordApplied : e.token = t => e.type = type
        /\ ordEntries' = ApplyEvent(ordEntries, WatchEvent(type, "pod", "a", t))
        /\ ordApplied' = ordApplied \cup {WatchEvent(type, "pod", "a", t)}
        /\ ordCount' = ordCount + 1
        /\ ordLast' = WatchEvent(type, "pod", "a", t)
        /\ UNCHANGED <<discVars, raceVars, coreVars, envVars, extVars>>

NextOrder == OrdApply

SpecOrder == InitOrder /\ [][NextOrder]_vars

\* the event of the greatest version token
Newest(evs) == CHOOSE e \in evs : \A f \in evs : f.token <= e.token

\* the events applied to an empty cache in the increasing order of their tokens
RECURSIVE InIncreasingOrder(_)
InIncreasingOrder(evs) ==
    IF evs = {} THEN << >>
    ELSE ApplyEvent(InIncreasingOrder(evs \ {Newest(evs)}), Newest(evs))

(***************************************************************************)
(* Properties of the registry and the caches.                              *)
(***************************************************************************)
(* C6: once DeregisterCluster(id) has returned, and for as long as id is   *)
(* not registered again, every List and Get for id fails with              *)
(* ClusterUnknown; no cache of a connection that left the registry holds a *)
(* subscription or is live.                                                *)
C6_DeregisteredIsGone ==
    /\ \A key \in DOMAIN caches :
          (~\E c \in registry : c.serial = key[1]) =>
              /\ caches[key].state = "Stopped"
              /\ ~caches[key].subscribed
              /\ caches[key].entries = << >>
    /\ \A r \in removed : ~\E c \in registry : c.serial = r.serial
    /\ (/\ coreCall.op \in {"List", "Get"}
        /\ \E r \in removed : r.id = coreCall.id
        /\ ~\E c \in registry : c.id = coreCall.id)
       => (coreCall.result = "ClusterUnknown" /\ coreCall.objs = {})

\* a List for a cluster that was deregistered while its cache was subscribed
C6_Witness ==
    /\ coreCall.op = "List"
    /\ coreCall.result = "ClusterUnknown"
    /\ \E r \in removed :
          /\ r.id = coreCall.id
          /\ <<r.serial, coreCall.kind>> \in DOMAIN caches
          /\ caches[<<r.serial, coreCall.kind>>].state = "Stopped"

(* C7: RegisterCluster(id) answers AlreadyExists when id is registered and *)
(* leaves the registry and the caches as they were; otherwise it adds one  *)
(* connection for id, in state Registered.  The registry never holds two   *)
(* connections of one id.                                                  *)
C7_RegisterOnce ==
    /\ \A c1 \in registry : \A c2 \in registry : c1.id = c2.id => c1 = c2
    /\ coreCall.op = "RegisterCluster" =>
          IF \E c \in coreCall.before[1] : c.id = coreCall.id
          THEN /\ coreCall.result = "AlreadyExists"
               /\ <<registry, caches>> = coreCall.before
          ELSE /\ coreCall.result = "Accepted"
               /\ caches = coreCall.before[2]
               /\ \E c \in registry :
                     /\ c.id = coreCall.id
                     /\ c.state = "Registered"
                     /\ c \notin coreCall.before[1]
                     /\ registry = coreCall.before[1] \cup {c}

\* a second registration of a cluster whose caches are running
C7_Witness ==
    /\ coreCall.op = "RegisterCluster"
    /\ coreCall.result = "AlreadyExists"
    /\ \E c \in registry :
          /\ c.id = coreCall.id
          /\ \E k \in TypeKinds :
                /\ <<c.serial, k>> \in DOMAIN caches
                /\ caches[<<c.serial, k>>].subscribed

\* the event is stale for the entries: its object is cached with a token as great
IsStale(entries, ev) ==
    ev.name \in DOMAIN entries /\ ev.token <= entries[ev.name].token

\* no entry that stays in a cache takes a smaller version token
TokensNeverDecrease ==
    \A key \in DOMAIN caches :
        key \in DOMAIN caches' =>
            \A n \in DOMAIN caches[key].entries :
                n \in DOMAIN caches'[key].entries =>
                    caches'[key].entries[n].token >= caches[key].entries[n].token

\* a received event is dropped if stale and applied otherwise
StaleDropped ==
    lastEv.op = "event" =>
        LET now == caches[lastEv.key].entries
            ev  == lastEv.ev
        IN  IF IsStale(lastEv.before, ev)
            THEN now = lastEv.before
            ELSE /\ \A n \in Names \ {ev.name} :
                      /\ n \in DOMAIN now <=> n \in DOMAIN lastEv.before
                      /\ n \in DOMAIN now => now[n] = lastEv.before[n]
                 /\ IF ev.type = "Deleted"
                    THEN ev.name \notin DOMAIN now
                    ELSE ev.name \in DOMAIN now /\ now[ev.name].token = ev.token

LegalMoves ==
    {<<"Seeding", "Syncing">>, <<"Syncing", "Degraded">>, <<"Degraded", "Seeding">>}
        \cup {<<s, "Stopped">> : s \in {"Seeding", "Syncing", "Degraded"}}

\* what one step may do to the cache key
CacheMove(key) ==
    LET was == caches[key]
        now == caches'[key]
    IN  /\ was.state # now.state => <<was.state, now.state>> \in LegalMoves
        /\ was.state = "Stopped" => now = was
        /\ (was.state = "Syncing" /\ now.state = "Degraded") =>
              /\ ~now.subscribed
              /\ retry'[key].wait = BackoffDelay(retry'[key].attempt)
              /\ retry'[key].wait = IF RetryOf(retry, key).attempt = 0 THEN BackoffBase
                                    ELSE Min(2 * BackoffDelay(RetryOf(retry, key).attempt),
                                             BackoffCap)
        /\ (was.state = "Degraded" /\ now.state = "Seeding") =>
              /\ retry[key].wait = 0
              /\ ~now.subscribed
        /\ (was.state = "Seeding" /\ now.state = "Syncing") =>
              /\ now.entries = Listing(srv, key[2])
              /\ now.baseline = rv
              /\ now.subscribed

\* a degraded cache holds no subscription and waits no longer than the cap
DegradedWaits ==
    \A key \in DOMAIN caches :
        caches[key].state = "Degraded" =>
            /\ ~caches[key].subscribed
            /\ key \in DOMAIN retry
            /\ retry[key].wait <= BackoffCap

(* C11: a Watch Cache only moves Seeding -> Syncing -> Degraded -> Seeding  *)
(* and, from any state, to Stopped; a broken subscription leads to         *)
(* Degraded, where the cache waits a capped exponential backoff and then   *)
(* lists afresh instead of resuming the stream; nothing leaves Stopped.    *)
C11_CacheStateMachine ==
    /\ []DegradedWaits
    /\ [][\A key \in DOMAIN caches : key \in DOMAIN caches' /\ CacheMove(key)]_vars

\* a cache that failed until its delay was capped is listing afresh over old entries
C11_Witness ==
    \E key \in DOMAIN caches :
        /\ caches[key].state = "Seeding"
        /\ caches[key].entries # << >>
        /\ key \in DOMAIN retry
        /\ BackoffDelay_NoCap(retry[key].attempt) > BackoffCap

(* C12: after the informers are rebuilt from the discovered descriptors    *)
(* there is one informer for each descriptor and for nothing else, and the *)
(* informer of a descriptor that had one is the one it had.                *)
C12_InformersMatchDescriptors ==
    call.op = "NewInformersForResource" =>
        /\ DOMAIN informers = Range(gvrs)
        /\ \A g \in DOMAIN informers \cap DOMAIN call.before[3] :
              informers[g] = call.before[3][g]

\* the step is a failure or a restart of the cache key
FailedOrRestarted(key) ==
    <<caches[key].state, caches'[key].state>> \in
        {<<"Syncing", "Degraded">>, <<"Degraded", "Seeding">>, <<"Seeding", "Syncing">>}

\* the step leaves every cache but key as it was
OthersUntouched(key) ==
    \A other \in DOMAIN caches \ {key} :
        /\ caches'[other] = caches[other]
        /\ RetryOf(retry', other) = RetryOf(retry, other)

(* C13: a failure or restart of one Watch Cache changes neither the state  *)
(* nor the contents of any other cache, of the same cluster or of another; *)
(* and every discovered type the factory can make an informer for has its  *)
(* informer, whichever other types it failed for.                          *)
C13_CachesIndependent ==
    /\ [](\A g \in Range(gvrs) : ForResourceOK(g) => g \in DOMAIN informers)
    /\ [][\A key \in DOMAIN caches : FailedOrRestarted(key) => OthersUntouched(key)]_vars

(* an informer could not be made for one type and was made for another;    *)
(* one cache is degraded while its sibling and the other cluster's cache   *)
(* are synchronised                                                        *)
C13_Witness ==
    /\ \E i \in 1..Len(gvrs) : \E j \in 1..Len(gvrs) :
          gvrs[i] \notin DOMAIN informers /\ gvrs[j] \in DOMAIN informers
    /\ \E k1 \in DOMAIN caches : \E k2 \in DOMAIN caches : \E k3 \in DOMAIN caches :
          /\ k1[1] = k2[1] /\ k1[1] # k3[1]
          /\ caches[k1].state = "Degraded"
          /\ caches[k2].state = "Syncing" /\ caches[k2].entries = Listing(srv, k2[2])
          /\ caches[k3].state = "Syncing" /\ caches[k3].entries = Listing(srv, k3[2])

(***************************************************************************)
(* One cached object, its cache's task writing it field by field and the   *)
(* query callers reading it field by field, under the cache's              *)
(* reader/writer lock.                                                     *)
(***************************************************************************)
\* a reader enters whatever the writer is doing
CanRead_NoLock(lock) == TRUE

\* readers are admitted while no writer holds the lock
CanRead(lock) == ~lock.writer

\* the writer is admitted while nobody holds the lock
CanWrite(lock) == ~lock.writer /\ lock.readers = 0

notSnap == <<discVars, raceVars, coreVars, envVars, ordVars, kubeVars, procVars, refreshVars, dbVars>>

InitSnapshot ==
    /\ cell = [token |-> 1, payload |-> 1]
    /\ rwlock = FreeLock
    /\ wtask = IdleWriter
    /\ rtask = [r \in Readers |-> IdleReader]
    /\ GetterIdle
    /\ CoreIdle
    /\ OrdIdle
    /\ KubeIdle
    /\ ProcIdle
    /\ RefreshIdle
    /\ DbIdle

\* the cache's task takes the lock to apply an event of some token
WriterBegin ==
    \E t \in 1..MaxToken :
        /\ wtask.pc = "idle"
        /\ CanWrite(rwlock)
        /\ rwlock' = [rwlock EXCEPT !.writer = TRUE]
        /\ wtask' = [pc |-> "locked", ev |-> t]
        /\ UNCHANGED <<cell, rtask, notSnap>>

\* it drops a stale event, or writes the token of a newer one
WriterToken ==
    /\ wtask.pc = "locked"
    /\ IF wtask.ev > cell.token
       THEN /\ cell' = [cell EXCEPT !.token = wtask.ev]
            /\ wtask' = [wtask EXCEPT !.pc = "tokenWritten"]
            /\ UNCHANGED rwlock
       ELSE /\ wtask' = IdleWriter
            /\ rwlock' = [rwlock EXCEPT !.writer = FALSE]
            /\ UNCHANGED cell
    /\ UNCHANGED <<rtask, notSnap>>

\* it writes the payload and releases the lock
WriterPayload ==
    /\ wtask.pc = "tokenWritten"
    /\ cell' = [cell EXCEPT !.payload = wtask.ev]
    /\ wtask' = IdleWriter
    /\ rwlock' = [rwlock EXCEPT !.writer = FALSE]
    /\ UNCHANGED <<rtask, notSnap>>

\* a List call takes the lock for reading
ReaderBegin(r) ==
    /\ rtask[r].pc = "idle"
    /\ CanRead(rwlock)
    /\ rwlock' = [rwlock EXCEPT !.readers = @ + 1]
    /\ rtask' = [rtask EXCEPT ![r] = [pc |-> "locked", token |-> 0, out |-> NoObject]]
    /\ UNCHANGED <<cell, wtask, notSnap>>

\* it copies the token
ReaderToken(r) ==
    /\ rtask[r].pc = "locked"
    /\ rtask' = [rtask EXCEPT ![r].pc = "tokenRead", ![r].token = cell.token]
    /\ UNCHANGED <<cell, rwlock, wtask, notSnap>>

\* it copies the payload, releases the lock and returns the object
ReaderPayload(r) ==
    /\ rtask[r].pc = "tokenRead"
    /\ rtask' = [rtask EXCEPT ![r] =
                    [pc |-> "idle", token |-> 0,
                     out |-> [valid |-> TRUE, token |-> rtask[r].token,
                              payload |-> cell.payload]]]
    /\ rwlock' = [rwlock EXCEPT !.readers = @ - 1]
    /\ UNCHANGED <<cell, wtask, notSnap>>

NextSnapshot ==
    \/ WriterBegin
    \/ WriterToken
    \/ WriterPayload
    \/ \E r \in Readers : ReaderBegin(r)
    \/ \E r \in Readers : ReaderToken(r)
    \/ \E r \in Readers : ReaderPayload(r)

SpecSnapshot == InitSnapshot /\ [][NextSnapshot]_vars

(* C14: an object a List call returns is wholly the state of one version:  *)
(* its payload is the payload written with its token.                      *)
C14_NoTornObject ==
    \A r \in Readers : rtask[r].out.valid => rtask[r].out.payload = rtask[r].out.token

(* a call returned version 2 or later, read between two writes, while      *)
(* another call is reading and the writer waits                            *)
C14_Witness ==
    \E r1 \in Readers : \E r2 \in Readers :
        /\ rtask[r1].out.valid /\ rtask[r1].out.token > 1
        /\ rtask[r2].pc = "tokenRead"
        /\ cell.token > rtask[r1].out.token

(* C15: kind resolution and listing are served from the index and the      *)
(* informer's store: they make no call to the cluster and leave the        *)
(* descriptors, the index and the informers as they were.                  *)
C15_ReadsAreLocal ==
    call.op \in {"ParseKind", "ListResources"} =>
        /\ call.net = {}
        /\ call.before = rgVars

\* a listing through the informer of a kind that was resolved from the index
C15_Witness ==
    /\ call.op = "ListResources"
    /\ call.gvr \in Range(gvrs)
    /\ \E kind \in Inputs :
          ~ParseKind(gvktogvrSet, kind).err /\ ParseKind(gvktogvrSet, kind).gvr = call.gvr

(***************************************************************************)
(* kubeConfigs: the kubeconfig records of a cloud, the service accounts    *)
(* and cluster role bindings behind them, and the store.                   *)
(***************************************************************************)
Clouds == {"k1", "k2"}
SANames == {"sa1", "sa2"}
\* the largest number of stored kubeconfig records
MaxRows == 2

\* a cluster without service accounts and role bindings of ours
NoAccounts == [sa |-> {}, crb |-> {}]

KubeResult(err, rem, store, calls, out) ==
    [err |-> err, rem |-> rem, store |-> store, calls |-> calls, out |-> out]

\* if c.client == nil { return nil, clientError }
ClientError(rem, store) == KubeResult("clientError", rem, store, << >>, {})

\* the id the store gives the next record
NextId(store) == CHOOSE i \in 1..(MaxRows + 1) :
                    i \notin DOMAIN store /\ \A j \in 1..(i - 1) : j \in DOMAIN store

(* The store's Update by the convention of the daos: the record is matched *)
(* on id and resource_version, and takes resource_version + 1.             *)
StoreUpdate(store, kid, resourceVersion) ==
    IF kid \in DOMAIN store /\ store[kid].version = resourceVersion
    THEN [store |-> [store EXCEPT ![kid].version = resourceVersion + 1], err |-> FALSE]
    ELSE [store |-> store, err |-> TRUE]

(* kubeConfigs.Create: service account, cluster role binding, CA, token,   *)
(* encryption, record; fail names the step that fails for a reason of the  *)
(* cluster or the store.                                                   *)
KubeCreate(client, rem, store, cloud, sa, fail) ==
    IF ~client THEN ClientError(rem, store)
    ELSE IF fail = "sa" \/ sa \in rem.sa
    THEN KubeResult("sa", rem, store, <<"sa.Create">>, {})
    ELSE LET r1 == [rem EXCEPT !.sa = @ \cup {sa}]
         IN  IF fail = "crb" \/ sa \in rem.crb
             THEN KubeResult("crb", r1, store, <<"sa.Create", "crb.Create">>, {})
             ELSE LET r2 == [r1 EXCEPT !.crb = @ \cup {sa}]
                      cs == <<"sa.Create", "crb.Create", "cm.Get">>
                  IN  IF fail = "ca" THEN KubeResult("ca", r2, store, cs, {})
                      ELSE IF fail = "token"
                      THEN KubeResult("token", r2, store, cs \o <<"sa.CreateToken">>, {})
                      ELSE IF fail = "encrypt"
                      THEN KubeResult("encrypt", r2, store, cs \o <<"sa.CreateToken">>, {})
                      ELSE IF fail = "store"
                      THEN KubeResult("store", r2, store,
                                      cs \o <<"sa.CreateToken", "store.Create">>, {})
                      ELSE KubeResult("", r2,
                                      MapPut(store, NextId(store),
                                             [cloud |-> cloud, sa |-> sa, version |-> 0]),
                                      cs \o <<"sa.CreateToken", "store.Create">>,
                                      {NextId(store)})

\* kubeConfigs.Update past its test of the client
UpdateSteps(rem, store, kid, fail) ==
    IF fail = "get" \/ kid \notin DOMAIN store
    THEN KubeResult("get", rem, store, <<"store.Get">>, {})
    ELSE IF fail = "decrypt" THEN KubeResult("decrypt", rem, store, <<"store.Get">>, {})
    ELSE IF fail = "token" \/ store[kid].sa \notin rem.sa
    THEN KubeResult("token", rem, store, <<"store.Get", "sa.CreateToken">>, {})
    ELSE IF fail = "encrypt"
    THEN KubeResult("encrypt", rem, store, <<"store.Get", "sa.CreateToken">>, {})
    ELSE LET u == StoreUpdate(store, kid, store[kid].version + 1)
         IN  KubeResult(IF u.err THEN "update" ELSE "", rem, u.store,
                        <<"store.Get", "sa.CreateToken", "store.Update">>,
                        IF u.err THEN {} ELSE {kid})

\* kubeConfigs.Update
KubeUpdate(client, rem, store, kid, fail) ==
    IF ~client THEN ClientError(rem, store) ELSE UpdateSteps(rem, store, kid, fail)

\* kubeConfigs.Delete past its test of the client
DeleteSteps(rem, store, kid, fail) ==
    IF fail = "get" \/ kid \notin DOMAIN store
    THEN KubeResult("get", rem, store, <<"store.Get">>, {})
    ELSE IF fail = "crb" \/ store[kid].sa \notin rem.crb
    THEN KubeResult("crb", rem, store, <<"store.Get", "crb.Delete">>, {})
    ELSE LET r1 == [rem EXCEPT !.crb = @ \ {store[kid].sa}]
             cs == <<"store.Get", "crb.Delete", "sa.Delete">>
         IN  IF fail = "sa" \/ store[kid].sa \notin rem.sa
             THEN KubeResult("sa", r1, store, cs, {})
             ELSE LET r2 == [r1 EXCEPT !.sa = @ \ {store[kid].sa}]
                  IN  IF fail = "store"
                      THEN KubeResult("store", r2, store, cs \o <<"store.Delete">>, {})
                      ELSE KubeResult("", r2, Without(store, kid),
                                      cs \o <<"store.Delete">>, {kid})

\* Delete without its test of the client
KubeDelete_NoClientCheck(client, rem, store, kid, fail) ==
    DeleteSteps(rem, store, kid, fail)

\* kubeConfigs.Delete
KubeDelete(client, rem, store, kid, fail) ==
    IF ~client THEN ClientError(rem, store) ELSE DeleteSteps(rem, store, kid, fail)

\* kubeConfigs.Get
KubeGet(client, rem, store, kid, fail) ==
    IF ~client THEN ClientError(rem, store)
    ELSE IF fail = "get" \/ kid \notin DOMAIN store
    THEN KubeResult("get", rem, store, <<"store.Get">>, {})
    ELSE IF fail = "decrypt" THEN KubeResult("decrypt", rem, store, <<"store.Get">>, {})
    ELSE KubeResult("", rem, store, <<"store.Get">>, {kid})

\* kubeConfigs.List
KubeList(client, rem, store, cloudName, fail) ==
    IF ~client THEN ClientError(rem, store)
    ELSE IF fail = "list" THEN KubeResult("list", rem, store, <<"store.List">>, {})
    ELSE IF fail = "decrypt" /\ \E k \in DOMAIN store : store[k].cloud = cloudName
    THEN KubeResult("decrypt", rem, store, <<"store.List">>, {})
    ELSE KubeResult("", rem, store, <<"store.List">>,
                    {k \in DOMAIN store : store[k].cloud = cloudName})

notKube == <<discVars, raceVars, coreVars, envVars, ordVars, snapVars, procVars, refreshVars, dbVars>>

\* a client set is held for k1 and none for k2; nothing has been created yet
InitKube ==
    /\ clientSets = {"k1"}
    /\ kubeRemote = [c \in Clouds |-> NoAccounts]
    /\ kubeStore = << >>
    /\ kubeCall = [op |-> "none"]
    /\ GetterIdle
    /\ CoreIdle
    /\ OrdIdle
    /\ SnapIdle
    /\ ProcIdle
    /\ RefreshIdle
    /\ DbIdle

\* the operation of the kubeConfigs of cloud answered r
KubeDone(op, cloud, r) ==
    /\ kubeRemote' = [kubeRemote EXCEPT ![cloud] = r.rem]
    /\ kubeStore' = r.store
    /\ kubeCall' = [op |-> op, cloud |-> cloud, err |-> r.err, calls |-> r.calls,
                    out |-> r.out, before |-> <<kubeRemote, kubeStore>>]
    /\ UNCHANGED <<clientSets, notKube>>

DoKubeCreate ==
    \E cloud \in Clouds : \E sa \in SANames :
        \E fail \in {"", "sa", "crb", "ca", "token", "encrypt", "store"} :
            /\ Cardinality(DOMAIN kubeStore) < MaxRows
            /\ KubeDone("Create", cloud,
                        KubeCreate(cloud \in clientSets, kubeRemote[cloud], kubeStore,
                                   cloud, sa, fail))

DoKubeUpdate ==
    \E cloud \in Clouds : \E kid \in 1..MaxRows :
        \E fail \in {"", "get", "decrypt", "token", "encrypt"} :
            KubeDone("Update", cloud,
                     KubeUpdate(cloud \in clientSets, kubeRemote[cloud], kubeStore, kid, fail))

DoKubeDelete ==
    \E cloud \in Clouds : \E kid \in 1..MaxRows :
        \E fail \in {"", "get", "crb", "sa", "store"} :
            KubeDone("Delete", cloud,
                     KubeDelete(cloud \in clientSets, kubeRemote[cloud], kubeStore, kid, fail))

DoKubeGet ==
    \E cloud \in Clouds : \E kid \in 1..MaxRows : \E fail \in {"", "get", "decrypt"} :
        KubeDone("Get", cloud,
                 KubeGet(cloud \in clientSets, kubeRemote[cloud], kubeStore, kid, fail))

DoKubeList ==
    \E cloud \in Clouds : \E cloudName \in Clouds : \E fail \in {"", "list", "decrypt"} :
        KubeDone("List", cloud,
                 KubeList(cloud \in clientSets, kubeRemote[cloud], kubeStore, cloudName, fail))

NextKube ==
    \/ DoKubeCreate
    \/ DoKubeUpdate
    \/ DoKubeDelete
    \/ DoKubeGet
    \/ DoKubeList

SpecKube == InitKube /\ [][NextKube]_vars

(* C16: a kubeConfigs operation obtained for a cloud that has no client    *)
(* set returns the client error, having called neither the cluster nor the *)
(* store and having changed nothing; and only such an operation returns    *)
(* that error.                                                             *)
C16_NoClientNoEffect ==
    kubeCall.op # "none" =>
        /\ (kubeCall.cloud \notin clientSets) <=> (kubeCall.err = "clientError")
        /\ kubeCall.cloud \notin clientSets =>
              /\ kubeCall.calls = << >>
              /\ kubeCall.out = {}
              /\ <<kubeRemote, kubeStore>> = kubeCall.before

\* a Delete through a cloud without client set, while records exist that it could name
C16_Witness ==
    /\ kubeCall.op = "Delete"
    /\ kubeCall.cloud \notin clientSets
    /\ kubeCall.err = "clientError"
    /\ kubeStore # << >>
    /\ \E c \in Clouds : kubeRemote[c].crb # {}

(***************************************************************************)
(* The process that constructs a getter per cluster.  klog.Fatalf logs and *)
(* exits the process.                                                      *)
(***************************************************************************)
(* NewConfig: the kubeconfig of the home directory, else the in-cluster    *)
(* config, else klog.Fatalf                                                *)
NewConfig(homeErr, inClusterErr) ==
    [exit |-> homeErr /\ inClusterErr, at |-> "NewConfig"]

(* NewResourceGetter from its first call: NewClientSet and                 *)
(* NewDiscoveryClient end in klog.Fatalf when the client cannot be built;  *)
(* the error of GetGVRs is dropped.                                        *)
Construct(clientSetErr, dcClientErr, resp) ==
    IF clientSetErr THEN [exit |-> TRUE, at |-> "NewClientSet", getter |-> << >>]
    ELSE IF dcClientErr THEN [exit |-> TRUE, at |-> "NewDiscoveryClient", getter |-> << >>]
    ELSE [exit |-> FALSE, at |-> "", getter |-> NewResourceGetter(resp)]

notProc == <<discVars, raceVars, coreVars, envVars, ordVars, snapVars, kubeVars, refreshVars, dbVars>>

InitProc ==
    /\ proc = "running"
    /\ getters = << >>
    /\ ctor = [op |-> "none"]
    /\ GetterIdle
    /\ CoreIdle
    /\ OrdIdle
    /\ SnapIdle
    /\ KubeIdle
    /\ RefreshIdle
    /\ DbIdle

DoNewConfig ==
    \E homeErr \in BOOLEAN : \E inClusterErr \in BOOLEAN :
        LET r == NewConfig(homeErr, inClusterErr)
        IN  /\ proc = "running"
            /\ proc' = IF r.exit THEN "exited" ELSE "running"
            /\ ctor' = [op |-> "NewConfig", cluster |-> "", failed |-> homeErr /\ inClusterErr,
                        at |-> r.at, before |-> getters]
            /\ UNCHANGED <<getters, notProc>>

DoNewResourceGetter ==
    \E c \in ClusterIds : \E clientSetErr \in BOOLEAN : \E dcClientErr \in BOOLEAN :
        \E resp \in RaceResponses :
            LET r == Construct(clientSetErr, dcClientErr, resp)
            IN  /\ proc = "running"
                /\ proc' = IF r.exit THEN "exited" ELSE "running"
                /\ getters' = IF r.exit THEN getters ELSE MapPut(getters, c, r.getter)
                /\ ctor' = [op |-> "NewResourceGetter", cluster |-> c,
                            failed |-> clientSetErr \/ dcClientErr \/ resp.err,
                            at |-> r.at, before |-> getters]
                /\ UNCHANGED notProc

NextProc ==
    \/ DoNewConfig
    \/ DoNewResourceGetter

SpecProc == InitProc /\ [][NextProc]_vars

(* C17: no failure ends the process: after a constructor call that failed  *)
(* to build a configuration, a client set or a discovery client, or whose  *)
(* discovery failed, the process runs on and the getters of the other      *)
(* clusters are as they were.                                              *)
C17_NoFailureIsFatal ==
    ctor.op # "none" =>
        /\ proc = "running"
        /\ \A c \in DOMAIN ctor.before :
              c # ctor.cluster => (c \in DOMAIN getters /\ getters[c] = ctor.before[c])

(***************************************************************************)
(* The Refresh Scheduler: per cluster, a tick starts a discovery pass and  *)
(* the pass ends in a failure that is recorded or in a Reconcile with the  *)
(* kinds discovered.  The interval is the distance between two ticks of a  *)
(* cluster; fairness makes each cluster's tick come again.                 *)
(***************************************************************************)
IdleRefresh == [phase |-> "idle", last |-> "none"]

\* a scheduler whose tick waits while another cluster's last pass has failed
CanTick_BlockedByFailure(rf, id) ==
    /\ rf[id].phase = "idle"
    /\ \A other \in DOMAIN rf \ {id} : rf[other].last # "failed"

\* a cluster's tick is due whenever its own pass is over
CanTick(rf, id) == rf[id].phase = "idle"

notRefresh == <<discVars, raceVars, ordVars, snapVars, kubeVars, procVars, dbVars>>

\* c1 and c2 are Ready, each with its pods seeded
InitRefresh ==
    /\ registry = {Conn("c1", MaxConns - 1, "Ready"), Conn("c2", MaxConns, "Ready")}
    /\ removed = {Conn("c1", n, "Removed") : n \in 1..(MaxConns - 2)}
    /\ nextSerial = MaxConns + 1
    /\ caches = [key \in {MaxConns - 1, MaxConns} \X {"pod"} |->
                    [state |-> "Syncing", entries |-> Listing(SeededCluster, "pod"),
                     baseline |-> 2, subscribed |-> TRUE]]
    /\ coreCall = [op |-> "none"]
    /\ srv = SeededCluster
    /\ rv = 2
    /\ stream = {}
    /\ lastEv = NoEvent
    /\ high = Raise(<< >>, caches)
    /\ retry = << >>
    /\ refresh = [id \in ClusterIds |-> IdleRefresh]
    /\ GetterIdle
    /\ OrdIdle
    /\ SnapIdle
    /\ KubeIdle
    /\ ProcIdle
    /\ DbIdle

\* the interval of the cluster id has passed: its discovery is run again
RefreshTick(id) ==
    /\ IsRegistered(registry, id)
    /\ CanTick(refresh, id)
    /\ refresh' = [refresh EXCEPT ![id].phase = "discovering"]
    /\ coreCall' = [op |-> "none"]
    /\ UNCHANGED <<registry, removed, nextSerial, caches, envVars, notRefresh>>

\* the pass fails: the failure is recorded and nothing else changes
RefreshFail(id) ==
    /\ refresh[id].phase = "discovering"
    /\ refresh' = [refresh EXCEPT ![id] = [phase |-> "idle", last |-> "failed"]]
    /\ coreCall' = [op |-> "none"]
    /\ UNCHANGED <<registry, removed, nextSerial, caches, envVars, notRefresh>>

\* the pass succeeds: Reconcile with the fresh descriptor set
RefreshOK(id) ==
    \E kinds \in SUBSET TypeKinds :
        /\ refresh[id].phase = "discovering"
        /\ IsRegistered(registry, id)
        /\ caches' = Reconcile(caches, ConnOf(registry, id).serial, kinds)
        /\ refresh' = [refresh EXCEPT ![id] = [phase |-> "idle", last |-> "ok"]]
        /\ coreCall' = [op |-> "none"]
        /\ lastEv' = NoEvent
        /\ high' = Raise(high, caches')
        /\ retry' = Forget(retry, caches')
        /\ UNCHANGED <<registry, removed, nextSerial, srv, rv, stream, notRefresh>>

RefreshDone(id) == RefreshFail(id) \/ RefreshOK(id)

NextRefresh ==
    \/ \E id \in ClusterIds : RefreshTick(id)
    \/ \E id \in ClusterIds : RefreshFail(id)
    \/ \E id \in ClusterIds : RefreshOK(id)
    \/ SeedCache

SpecRefresh ==
    /\ InitRefresh
    /\ [][NextRefresh]_vars
    /\ \A id \in ClusterIds : WF_vars(RefreshTick(id)) /\ WF_vars(RefreshDone(id))

\* the caches the cluster id owns
CachesOf(cs, id) ==
    [key \in {x \in DOMAIN cs : IsRegistered(registry, id) /\ x[1] = ConnOf(registry, id).serial}
        |-> cs[key]]

\* a step of the refresh of id leaves the refresh and the caches of every other cluster alone
RefreshStepIsLocal ==
    \A id \in ClusterIds :
        refresh'[id] # refresh[id] =>
            /\ \A other \in ClusterIds \ {id} :
                  /\ refresh'[other] = refresh[other]
                  /\ CachesOf(caches', other) = CachesOf(caches, other)
            /\ (refresh'[id].last = "failed" /\ refresh[id].phase = "discovering") =>
                  (caches' = caches /\ refresh'[id].phase = "idle")

(* C18: refresh runs per cluster independently: a step of one cluster's    *)
(* refresh changes nothing of another cluster, a failed discovery is       *)
(* recorded and leads to another discovery of that cluster, and under fair *)
(* scheduling every cluster is refreshed again and again whatever the      *)
(* other cluster's passes end in.                                          *)
C18_RefreshIndependent ==
    /\ [][RefreshStepIsLocal]_vars
    /\ \A id \in ClusterIds : []<>(refresh[id].phase = "discovering")
    /\ \A id \in ClusterIds :
          (refresh[id].last = "failed" /\ refresh[id].phase = "idle")
              ~> (refresh[id].phase = "discovering")

\* c1 is discovering again after a failed pass while c2 was refreshed with success
C18_Witness ==
    /\ refresh # << >>
    /\ refresh["c1"] = [phase |-> "discovering", last |-> "failed"]
    /\ refresh["c2"].last = "ok"

\* the moves of a connection that stays registered
LifecycleMoves ==
    {<<"Registered", "Discovering">>, <<"Discovering", "Syncing">>,
     <<"Syncing", "Ready">>, <<"Syncing", "Degraded">>,
     <<"Ready", "Degraded">>, <<"Degraded", "Ready">>}

\* in one step a connection keeps its state, makes a legal move, or is removed
ConnectionMove(c) ==
    \/ \E d \in registry' :
          /\ d.serial = c.serial /\ d.id = c.id
          /\ d.state = c.state \/ <<c.state, d.state>> \in LifecycleMoves
          /\ \A e \in registry' : e.serial = c.serial => e = d
    \/ /\ \A d \in registry' : d.serial # c.serial
       /\ Conn(c.id, c.serial, "Removed") \in removed'

\* what was removed stays removed, and a connection starts as Registered
RemovedIsTerminal ==
    /\ removed \subseteq removed'
    /\ \A g \in removed' : g.state = "Removed" /\ \A d \in registry' : d.serial # g.serial
    /\ \A d \in registry' :
          (\A c \in registry : c.serial # d.serial) => d.state = "Registered"

\* every registered connection, whatever its state, is removed by DeregisterCluster
RemovableFromAnyState ==
    \A c \in registry :
        LET r == DeregisterCluster(registry, caches, c.id)
        IN  /\ c.state \in {"Registered", "Discovering", "Syncing", "Ready", "Degraded"}
            /\ r.result = "Removed"
            /\ r.gone = {Conn(c.id, c.serial, "Removed")}
            /\ c \notin r.registry

(* C19: a connection's lifecycle state only follows Registered ->          *)
(* Discovering -> Syncing -> Ready | Degraded, with Degraded back to Ready *)
(* and Ready to Degraded; it can be removed from every state, and a        *)
(* removed connection stays removed and never returns to the registry.     *)
C19_ConnectionLifecycle ==
    /\ []RemovableFromAnyState
    /\ [][(\A c \in registry : ConnectionMove(c)) /\ RemovedIsTerminal]_vars

(* c2 was removed and registered again as a new connection, which went    *)
(* Degraded when its pods failed and is Ready again with them seeded anew  *)
C19_Witness ==
    /\ Conn("c2", MaxConns - 1, "Removed") \in removed
    /\ Conn("c2", MaxConns, "Ready") \in registry
    /\ <<MaxConns, "pod">> \in DOMAIN caches
    /\ caches[<<MaxConns, "pod">>].state = "Syncing"
    /\ RetryOf(retry, <<MaxConns, "pod">>).attempt > 0

\* whatever the getter holds, a failing call makes GetGVRs answer the error and what it held
FailedCallKeepsIndex ==
    \A resp \in Responses :
        resp.err =>
            GetGVRs([gvrs |-> gvrs, gvktogvrSet |-> gvktogvrSet], resp)
                = [gvrs |-> gvrs, gvktogvrSet |-> gvktogvrSet, err |-> TRUE]

(* C20: when the preferred-resources call fails, GetGVRs returns the error *)
(* and the descriptor list and the kind index are after the pass what they *)
(* were before it.                                                         *)
C20_FailedDiscoveryKeepsIndex ==
    /\ []FailedCallKeepsIndex
    /\ [][(call' = NoCall /\ pass'.op = "GetGVRs" /\ pass'.err)
            => (gvrs' = gvrs /\ gvktogvrSet' = gvktogvrSet /\ informers' = informers)]_vars

\* a pass has failed and the index discovered before it is still held
C20_Witness ==
    /\ pass.op = "GetGVRs"
    /\ pass.err
    /\ call = NoCall
    /\ Len(gvrs) > 0
    /\ gvktogvrSet # EmptyMap

(* C21: as NewResourceGetter leaves the getter, every descriptor ParseKind *)
(* can answer has an informer, and every informer is that of a discovered  *)
(* descriptor.                                                             *)
C21_ResolvableKindsHaveInformer ==
    (pass.op = "NewResourceGetter" /\ call = NoCall) =>
        /\ \A kind \in Inputs :
              ~ParseKind(gvktogvrSet, kind).err =>
                  ParseKind(gvktogvrSet, kind).gvr \in DOMAIN informers
        /\ DOMAIN informers \subseteq Range(gvrs)

(* C23: an Update that reaches the store's Update, no other writer having  *)
(* touched the record since it was read, is accepted and leaves the        *)
(* record's version one above what it was.                                 *)
C23_UpdateAccepted ==
    (kubeCall.op = "Update" /\ kubeCall.calls = <<"store.Get", "sa.CreateToken", "store.Update">>) =>
        /\ kubeCall.err = ""
        /\ \E kid \in kubeCall.out :
              kubeStore[kid].version = kubeCall.before[2][kid].version + 1

(* C24: a Create that returns an error leaves the cluster and the store as *)
(* they were; a Create that succeeds leaves the service account, the       *)
(* cluster role binding and the record.                                    *)
C24_CreateAllOrNothing ==
    kubeCall.op = "Create" =>
        IF kubeCall.err # ""
        THEN <<kubeRemote, kubeStore>> = kubeCall.before
        ELSE \E kid \in kubeCall.out :
                /\ kid \in DOMAIN kubeStore
                /\ kid \notin DOMAIN kubeCall.before[2]
                /\ kubeStore[kid].cloud = kubeCall.cloud
                /\ kubeStore[kid].sa \in kubeRemote[kubeCall.cloud].sa
                /\ kubeStore[kid].sa \in kubeRemote[kubeCall.cloud].crb

(***************************************************************************)
(* tenant.Update and user.Update: one UPDATE statement each, matched on id *)
(* and resource_version, issued by callers that run concurrently.  The     *)
(* database executes the statements of the callers one at a time.          *)
(***************************************************************************)
Tables == {"tenants", "users"}
Writers == {"w1", "w2"}
\* the ids the callers name: the row 1 of each table exists, no row 2 does
RowIds == {1, 2}
\* the largest resource_version a row reaches
MaxVersion == 2

\* tenant.Update without resource_version in its WHERE clause
TenantUpdate_NoVersionMatch(tbl, tid, resourceVersion, updates, dbErr) ==
    IF dbErr THEN [rows |-> tbl, err |-> "dbError"]
    ELSE IF tid \in DOMAIN tbl
    THEN [rows |-> [tbl EXCEPT ![tid] = [version |-> resourceVersion + 1, by |-> updates]],
          err  |-> ""]
    ELSE [rows |-> tbl, err |-> "ErrRecordNotFound"]

(* tenant.Update: updates["resource_version"] = resourceVersion + 1, WHERE *)
(* id = tid and resource_version = resourceVersion; f.Error is returned,   *)
(* and ErrRecordNotFound when no row was affected.                         *)
TenantUpdate(tbl, tid, resourceVersion, updates, dbErr) ==
    IF dbErr THEN [rows |-> tbl, err |-> "dbError"]
    ELSE IF tid \in DOMAIN tbl /\ tbl[tid].version = resourceVersion
    THEN [rows |-> [tbl EXCEPT ![tid] = [version |-> resourceVersion + 1, by |-> updates]],
          err  |-> ""]
    ELSE [rows |-> tbl, err |-> "ErrRecordNotFound"]

\* user.Update: the same statement on the users table, ErrRecordNotUpdate when no row was affected
UserUpdate(tbl, uid, resourceVersion, updates, dbErr) ==
    IF dbErr THEN [rows |-> tbl, err |-> "dbError"]
    ELSE IF uid \in DOMAIN tbl /\ tbl[uid].version = resourceVersion
    THEN [rows |-> [tbl EXCEPT ![uid] = [version |-> resourceVersion + 1, by |-> updates]],
          err  |-> ""]
    ELSE [rows |-> tbl, err |-> "ErrRecordNotUpdate"]

IdleCaller == [pc |-> "idle"]

notRows == <<discVars, raceVars, coreVars, envVars, ordVars, snapVars, kubeVars, procVars,
             refreshVars, configs, cfgTask, bindings, roleCall, daoCall>>

\* each table holds the row 1 as Create left it, at resource_version 0
InitRows ==
    /\ rows = [t \in Tables |-> (1 :> [version |-> 0, by |-> "create"])]
    /\ writers = [w \in Writers |-> IdleCaller]
    /\ PlanIdle
    /\ RolesIdle
    /\ GetterIdle
    /\ CoreIdle
    /\ OrdIdle
    /\ SnapIdle
    /\ KubeIdle
    /\ ProcIdle
    /\ RefreshIdle

\* a caller enters Update(id, resourceVersion, updates)
UpdateCall(w) ==
    \E t \in Tables : \E id \in RowIds : \E resourceVersion \in 0..MaxVersion :
        /\ writers[w].pc \in {"idle", "done"}
        /\ writers' = [writers EXCEPT ![w] =
                          [pc |-> "pending", table |-> t, id |-> id,
                           resourceVersion |-> resourceVersion]]
        /\ UNCHANGED <<rows, notRows>>

\* the database executes its statement and Update returns
UpdateExec(w) ==
    \E dbErr \in BOOLEAN :
        LET c == writers[w]
            r == IF c.table = "tenants"
                 THEN TenantUpdate(rows[c.table], c.id, c.resourceVersion, w, dbErr)
                 ELSE UserUpdate(rows[c.table], c.id, c.resourceVersion, w, dbErr)
        IN  /\ writers[w].pc = "pending"
            /\ (c.id \in DOMAIN rows[c.table] /\ rows[c.table][c.id].version = c.resourceVersion)
                  => c.resourceVersion < MaxVersion
            /\ rows' = [rows EXCEPT ![c.table] = r.rows]
            /\ writers' = [writers EXCEPT ![w] =
                              [pc |-> "done", table |-> c.table, id |-> c.id,
                               resourceVersion |-> c.resourceVersion, err |-> r.err]]
            /\ UNCHANGED notRows

NextRows ==
    \/ \E w \in Writers : UpdateCall(w)
    \/ \E w \in Writers : UpdateExec(w)

SpecRows == InitRows /\ [][NextRows]_vars

\* the Update of w returns in this step
Returns(w) == writers[w].pc = "pending" /\ writers'[w].pc = "done"

\* it succeeds only on a row at the version given, which takes that version plus one
UpdateIsCompareAndSet ==
    \A w \in Writers :
        Returns(w) =>
            LET c == writers[w]
            IN  IF writers'[w].err = ""
                THEN /\ c.id \in DOMAIN rows[c.table]
                     /\ rows[c.table][c.id].version = c.resourceVersion
                     /\ rows' = [rows EXCEPT ![c.table][c.id] =
                                    [version |-> c.resourceVersion + 1, by |-> w]]
                ELSE /\ rows' = rows
                     /\ writers'[w].err \in {"dbError", IF c.table = "tenants"
                                                        THEN "ErrRecordNotFound"
                                                        ELSE "ErrRecordNotUpdate"}

\* a statement that meets the row at the version given, the database working, succeeds
MatchSucceeds ==
    \A w \in Writers :
        (Returns(w) /\ writers'[w].err \in {"ErrRecordNotFound", "ErrRecordNotUpdate"}) =>
            ~(/\ writers[w].id \in DOMAIN rows[writers[w].table]
              /\ rows[writers[w].table][writers[w].id].version = writers[w].resourceVersion)

\* no stored version decreases and no row appears or disappears
VersionsGrow ==
    \A t \in Tables :
        /\ DOMAIN rows'[t] = DOMAIN rows[t]
        /\ \A id \in DOMAIN rows[t] : rows'[t][id].version >= rows[t][id].version

\* of the Updates of one row that carried one version, at most one has succeeded
OneWinner ==
    \A w1 \in Writers : \A w2 \in Writers \ {w1} :
        ~(/\ writers[w1].pc = "done" /\ writers[w1].err = ""
          /\ writers[w2].pc = "done" /\ writers[w2].err = ""
          /\ writers[w1].table = writers[w2].table
          /\ writers[w1].id = writers[w2].id
          /\ writers[w1].resourceVersion = writers[w2].resourceVersion)

(* C22: Update succeeds only if the row's stored version is the one given  *)
(* when the statement executes, and the row then takes that version plus   *)
(* one; otherwise it answers an error and no row changes.  Of two Updates  *)
(* of a row that carry the same version at most one succeeds, and no       *)
(* stored version ever decreases.                                          *)
C22_UpdateIsCompareAndSet ==
    /\ []OneWinner
    /\ [][UpdateIsCompareAndSet /\ MatchSucceeds /\ VersionsGrow]_vars

(* both callers entered Update of the tenant 1 with version 0 before       *)
(* either statement ran: w1 succeeded, w2 was answered not found           *)
C22_Witness ==
    /\ writers # << >>
    /\ writers["w1"] = [pc |-> "done", table |-> "tenants", id |-> 1,
                        resourceVersion |-> 0, err |-> ""]
    /\ writers["w2"] = [pc |-> "done", table |-> "tenants", id |-> 1,
                        resourceVersion |-> 0, err |-> "ErrRecordNotFound"]
    /\ rows["tenants"][1] = [version |-> 1, by |-> "w1"]

(***************************************************************************)
(* plan.CreateConfig: the check for a config of the plan, then the row     *)
(* made from the request, then the insert; two callers run concurrently.   *)
(* Whether the configs table has a unique index on the plan id is not      *)
(* known from the sources: both schemas are modelled.                      *)
(***************************************************************************)
Plans == {1, 2}
Callers == {"p1", "p2"}
\* the largest number of config rows
MaxConfigs == 3

\* the rows of the plan planId
ConfigsOf(cfgs, planId) == {i \in 1..Len(cfgs.rows) : cfgs.rows[i] = planId}

\* Plan().GetConfigByPlan: the first config of the plan, an error when there is none
GetConfigByPlan(cfgs, planId, dbErr) ==
    IF dbErr THEN "dbError"
    ELSE IF ConfigsOf(cfgs, planId) = {} THEN "ErrRecordNotFound" ELSE ""

\* plan.preCreateConfig: refuses only when GetConfigByPlan answered without error
PreCreateConfig(cfgs, planId, dbErr) ==
    IF GetConfigByPlan(cfgs, planId, dbErr) = "" THEN "exists" ELSE ""

\* plan.makePlanConfig: the row takes its plan id from the request
MakePlanConfig(req, marshalErr) ==
    IF marshalErr THEN [err |-> "marshal", PlanId |-> 0]
    ELSE [err |-> "", PlanId |-> req.PlanId]

\* Plan().CreatConfig: the insert
CreatConfig(cfgs, planId, dbErr) ==
    IF dbErr \/ (cfgs.unique /\ ConfigsOf(cfgs, planId) # {})
    THEN [configs |-> cfgs, err |-> "dbError"]
    ELSE [configs |-> [cfgs EXCEPT !.rows = Append(@, planId)], err |-> ""]

notPlan == <<discVars, raceVars, coreVars, envVars, ordVars, snapVars, kubeVars, procVars,
             refreshVars, rows, writers, bindings, roleCall, daoCall>>

InitPlan ==
    /\ configs \in {[unique |-> u, rows |-> << >>] : u \in BOOLEAN}
    /\ cfgTask = [c \in Callers |-> IdleCaller]
    /\ RowsIdle
    /\ RolesIdle
    /\ GetterIdle
    /\ CoreIdle
    /\ OrdIdle
    /\ SnapIdle
    /\ KubeIdle
    /\ ProcIdle
    /\ RefreshIdle

\* CreateConfig(pid, req) up to the answer of preCreateConfig
ConfigCheck(c) ==
    \E pid \in Plans : \E reqPlan \in Plans : \E dbErr \in BOOLEAN :
        LET e == PreCreateConfig(configs, pid, dbErr)
            t == [pc |-> IF e = "" THEN "checked" ELSE "done",
                  pid |-> pid, req |-> [PlanId |-> reqPlan],
                  held |-> ConfigsOf(configs, pid) # {}, made |-> 0, err |-> e]
        IN  /\ cfgTask[c].pc \in {"idle", "done"}
            /\ cfgTask' = [cfgTask EXCEPT ![c] = t]
            /\ UNCHANGED <<configs, notPlan>>

\* the rest of CreateConfig: makePlanConfig and CreatConfig
ConfigCreate(c) ==
    \E marshalErr \in BOOLEAN : \E dbErr \in BOOLEAN :
        LET t == cfgTask[c]
            m == MakePlanConfig(t.req, marshalErr)
            r == CreatConfig(configs, m.PlanId, dbErr)
        IN  /\ t.pc = "checked"
            /\ Len(configs.rows) < MaxConfigs
            /\ IF m.err # ""
               THEN /\ configs' = configs
                    /\ cfgTask' = [cfgTask EXCEPT ![c].pc = "done", ![c].err = m.err]
               ELSE /\ configs' = r.configs
                    /\ cfgTask' = [cfgTask EXCEPT ![c].pc = "done", ![c].err = r.err,
                                       ![c].made = IF r.err = "" THEN m.PlanId ELSE 0]
            /\ UNCHANGED notPlan

NextPlan ==
    \/ \E c \in Callers : ConfigCheck(c)
    \/ \E c \in Callers : ConfigCreate(c)

SpecPlan == InitPlan /\ [][NextPlan]_vars

(* C25: at most one config exists per plan; a CreateConfig that found a    *)
(* config of its plan answered that it exists and created nothing; and the *)
(* config a CreateConfig created is of the plan it checked.                *)
C25_OneConfigPerPlan ==
    /\ \A planId \in Plans : Cardinality(ConfigsOf(configs, planId)) <= 1
    /\ \A c \in DOMAIN cfgTask :
          cfgTask[c].pc = "done" =>
              /\ cfgTask[c].held => (cfgTask[c].err = "exists" /\ cfgTask[c].made = 0)
              /\ cfgTask[c].err = "" => cfgTask[c].made = cfgTask[c].pid

(***************************************************************************)
(* The dao factory and the user dao built on its connection:               *)
(* NewDaoFactory, then user.SetUserRoles in a transaction.                 *)
(***************************************************************************)
DbTypes == {"mysql", "sqlite", "postgres"}

(* NewDaoFactory.  The error of NewDb is assigned and never tested: New is *)
(* called on db.Conn whatever NewDb answered.  What NewDb hands back with  *)
(* an error is not in the sources: a nil db or a nil Conn (the dereference *)
(* or the type assertion panics) or a connection New accepts.  A type that *)
(* is neither mysql nor sqlite falls through to return nil, err with err   *)
(* never assigned.                                                         *)
NewDaoFactory(dbType, openErr) ==
    IF dbType \in {"mysql", "sqlite"}
    THEN IF openErr
         THEN {[factory |-> "none", err |-> "", panic |-> TRUE],
               [factory |-> dbType, err |-> "", panic |-> FALSE]}
         ELSE {[factory |-> dbType, err |-> "", panic |-> FALSE]}
    ELSE {[factory |-> "none", err |-> "", panic |-> FALSE]}

Users == {1, 2}
Roles == {1, 2}
\* the longest list of role ids a call carries
MaxRids == 2

RECURSIVE SeqsUpTo(_, _)
\* the sequences over S of length n or less
SeqsUpTo(S, n) ==
    IF n = 0 THEN {<< >>}
    ELSE SeqsUpTo(S, n - 1)
            \cup {Append(q, x) : q \in {p \in SeqsUpTo(S, n - 1) : Len(p) = n - 1}, x \in S}

\* u.db.Begin(): the transaction works on its own view of the table
Begin(tbl) == [base |-> tbl, work |-> tbl]
\* tx.Where(&model.UserRole{UserID: uid}).Delete(&model.UserRole{})
TxDelete(tx, uid) == [tx EXCEPT !.work = {b \in @ : b[1] # uid}]
\* tx.Create(rm) for the first n role ids
TxCreate(tx, uid, rids, n) == [tx EXCEPT !.work = @ \cup {<<uid, rids[i]>> : i \in 1..n}]
Rollback(tx) == tx.base
Commit(tx) == tx.work

\* SetUserRoles that returns the error of a Create and leaves the transaction to commit
SetUserRoles_NoRollback(tbl, uid, rids, fail, failCreate) ==
    IF fail = "begin" THEN [bindings |-> Rollback(Begin(tbl)), err |-> "begin"]
    ELSE IF fail = "delete" \/ uid = 0
    THEN [bindings |-> Rollback(Begin(tbl)), err |-> "delete"]
    ELSE IF failCreate \in 1..Len(rids)
    THEN [bindings |-> Commit(TxCreate(TxDelete(Begin(tbl), uid), uid, rids, failCreate - 1)),
          err |-> "create"]
    ELSE IF fail = "commit"
    THEN [bindings |-> Rollback(TxCreate(TxDelete(Begin(tbl), uid), uid, rids, Len(rids))),
          err |-> "commit"]
    ELSE [bindings |-> Commit(TxCreate(TxDelete(Begin(tbl), uid), uid, rids, Len(rids))),
          err |-> ""]

(* user.SetUserRoles: Begin, delete the rows of uid, create a row per role *)
(* id, Commit; each error rolls the transaction back and is returned.  A   *)
(* uid of 0 gives a delete without condition, which gorm refuses.          *)
SetUserRoles(tbl, uid, rids, fail, failCreate) ==
    IF fail = "begin" THEN [bindings |-> Rollback(Begin(tbl)), err |-> "begin"]
    ELSE IF fail = "delete" \/ uid = 0
    THEN [bindings |-> Rollback(Begin(tbl)), err |-> "delete"]
    ELSE IF failCreate \in 1..Len(rids)
    THEN [bindings |-> Rollback(TxCreate(TxDelete(Begin(tbl), uid), uid, rids, failCreate - 1)),
          err |-> "create"]
    ELSE IF fail = "commit"
    THEN [bindings |-> Rollback(TxCreate(TxDelete(Begin(tbl), uid), uid, rids, Len(rids))),
          err |-> "commit"]
    ELSE [bindings |-> Commit(TxCreate(TxDelete(Begin(tbl), uid), uid, rids, Len(rids))),
          err |-> ""]

notRoles == <<discVars, raceVars, coreVars, envVars, ordVars, snapVars, kubeVars, procVars,
              refreshVars, rows, writers, configs, cfgTask>>

\* no factory has been asked for; user 2 holds role 1
InitRoles ==
    /\ bindings = {<<2, 1>>}
    /\ roleCall = [op |-> "none"]
    /\ daoCall = [op |-> "none"]
    /\ RowsIdle
    /\ PlanIdle
    /\ GetterIdle
    /\ CoreIdle
    /\ OrdIdle
    /\ SnapIdle
    /\ KubeIdle
    /\ ProcIdle
    /\ RefreshIdle

DoNewDaoFactory ==
    \E dbType \in DbTypes : \E openErr \in BOOLEAN :
        \E r \in NewDaoFactory(dbType, openErr) :
            /\ IF daoCall.op = "none" THEN TRUE ELSE ~daoCall.panic
            /\ daoCall' = [op |-> "NewDaoFactory", dbType |-> dbType, openErr |-> openErr,
                           factory |-> r.factory, err |-> r.err, panic |-> r.panic]
            /\ UNCHANGED <<bindings, roleCall, notRoles>>

\* a call through the user dao of a factory whose connection was opened
DoSetUserRoles ==
    \E uid \in Users \cup {0} : \E rids \in SeqsUpTo(Roles, MaxRids) :
        \E fail \in {"", "begin", "delete", "commit"} : \E failCreate \in 0..MaxRids :
            LET r == SetUserRoles(bindings, uid, rids, fail, failCreate)
            IN  /\ daoCall.op = "NewDaoFactory"
                /\ daoCall.factory # "none" /\ ~daoCall.openErr
                /\ bindings' = r.bindings
                /\ roleCall' = [op |-> "SetUserRoles", uid |-> uid, rids |-> rids,
                                err |-> r.err, before |-> bindings]
                /\ UNCHANGED <<daoCall, notRoles>>

NextRoles ==
    \/ DoNewDaoFactory
    \/ DoSetUserRoles

SpecRoles == InitRoles /\ [][NextRoles]_vars

\* the roles bound to uid
RolesOf(tbl, uid) == {b[2] : b \in {x \in tbl : x[1] = uid}}

(* C26: a SetUserRoles that returns nil leaves uid bound to exactly the    *)
(* roles given and every other user's bindings as they were; one that      *)
(* returns an error leaves all bindings as they were.                      *)
C26_SetUserRolesAtomic ==
    roleCall.op = "SetUserRoles" =>
        IF roleCall.err = ""
        THEN /\ RolesOf(bindings, roleCall.uid) = Range(roleCall.rids)
             /\ \A u \in Users \ {roleCall.uid} :
                   RolesOf(bindings, u) = RolesOf(roleCall.before, u)
        ELSE bindings = roleCall.before

(* the second Create of a call failed, for a user who held a role the call *)
(* was to take away                                                        *)
C26_Witness ==
    /\ roleCall.op = "SetUserRoles"
    /\ roleCall.err = "create"
    /\ Len(roleCall.rids) = 2
    /\ RolesOf(roleCall.before, roleCall.uid) # {}
    /\ RolesOf(roleCall.before, roleCall.uid) # Range(roleCall.rids)
    /\ \E u \in Users \ {roleCall.uid} : RolesOf(bindings, u) # {}

(* C27: NewDaoFactory never returns no factory with no error, and for a    *)
(* database type it does not support or a connection that failed to open   *)
(* it returns an error and no factory.                                     *)
C27_FactoryOrError ==
    daoCall.op = "NewDaoFactory" =>
        /\ ~daoCall.panic
        /\ ~(daoCall.factory = "none" /\ daoCall.err = "")
        /\ (daoCall.dbType \notin {"mysql", "sqlite"} \/ daoCall.openErr) =>
              (daoCall.factory = "none" /\ daoCall.err # "")

====
